---- MODULE Spec2Model ----
(***************************************************************************)
(* The NCO to O*NET crosswalk generator (nco_onet_crosswalk.py): the rule  *)
(* tables, the tiered matcher find_semantic_match, the line-oriented       *)
(* extractors and the assembler create_crosswalk.                          *)
(*                                                                         *)
(* Python strings are TLA+ strings; TLC evaluates Len, SubSeq, Head, Tail  *)
(* and \o on them, so every string operation of the code is computed on    *)
(* the characters.                                                         *)
(***************************************************************************)
EXTENDS Integers, Sequences, FiniteSets, TLC

\* ------------------------------------------------------------------------
\* Bounds of the explored inputs
\* ------------------------------------------------------------------------

\* A title handed to the matcher is made of at most this many sample phrases.
MaxTitleParts == 1

\* An NCO document has at most this many pages,
MaxPages == 1

\* holding at most this many lines together.
MaxDocLines == 2

\* A line handed to the extractor alone is made of at most this many tokens.
MaxLineTokens == 3

\* The number of threads that call find_semantic_match side by side.
MaxWorkers == 2

\* An NCO document handed to the extractor alone has at most this many pages.
MaxExtractPages == 2

\* ------------------------------------------------------------------------
\* Rule tables (module-level dict literals of the program)
\* ------------------------------------------------------------------------

\* The keyword table, a dict in insertion order: <<keyword, <<onet_code, onet_title>> >>.
SEMANTIC_KEYWORDS ==
  <<
    <<"judge", <<"23-1023.00", "Judges, Magistrate Judges, and Magistrates">> >>,
    <<"justice", <<"23-1023.00", "Judges, Magistrate Judges, and Magistrates">> >>,
    <<"magistrate", <<"23-1023.00", "Judges, Magistrate Judges, and Magistrates">> >>,
    <<"tribunal", <<"23-1023.00", "Judges, Magistrate Judges, and Magistrates">> >>,
    <<"lawyer", <<"23-1011.00", "Lawyers">> >>,
    <<"advocate", <<"23-1011.00", "Lawyers">> >>,
    <<"attorney", <<"23-1011.00", "Lawyers">> >>,
    <<"solicitor", <<"23-1011.00", "Lawyers">> >>,
    <<"barrister", <<"23-1011.00", "Lawyers">> >>,
    <<"paralegal", <<"23-2011.00", "Paralegals and Legal Assistants">> >>,
    <<"elected official", <<"11-1031.00", "Legislators">> >>,
    <<"legislator", <<"11-1031.00", "Legislators">> >>,
    <<"diplomat", <<"11-1011.00", "Chief Executives">> >>,
    <<"administrative official", <<"11-1011.00", "Chief Executives">> >>,
    <<"executive official", <<"11-1011.00", "Chief Executives">> >>,
    <<"government official", <<"11-1011.00", "Chief Executives">> >>,
    <<"chief executive", <<"11-1011.00", "Chief Executives">> >>,
    <<"chairman", <<"11-1011.00", "Chief Executives">> >>,
    <<"registrar", <<"11-9033.00", "Education Administrators, Postsecondary">> >>,
    <<"treasurer", <<"11-3031.00", "Financial Managers">> >>,
    <<"controller", <<"11-3031.00", "Financial Managers">> >>,
    <<"professor", <<"25-1099.00", "Postsecondary Teachers, All Other">> >>,
    <<"lecturer", <<"25-1099.00", "Postsecondary Teachers, All Other">> >>,
    <<"university", <<"25-1099.00", "Postsecondary Teachers, All Other">> >>,
    <<"college teacher", <<"25-1099.00", "Postsecondary Teachers, All Other">> >>,
    <<"principal, college", <<"11-9033.00", "Education Administrators, Postsecondary">> >>,
    <<"principal", <<"11-9032.00", "Education Administrators, Kindergarten through Secondary">> >>,
    <<"headmaster", <<"11-9032.00", "Education Administrators, Kindergarten through Secondary">> >>,
    <<"school inspector", <<"11-9032.00", "Education Administrators, Kindergarten through Secondary">> >>,
    <<"education officer", <<"11-9032.00", "Education Administrators, Kindergarten through Secondary">> >>,
    <<"physician", <<"29-1216.00", "General Internal Medicine Physicians">> >>,
    <<"doctor", <<"29-1216.00", "General Internal Medicine Physicians">> >>,
    <<"surgeon", <<"29-1248.00", "Surgeons, All Other">> >>,
    <<"nursing", <<"29-1141.00", "Registered Nurses">> >>,
    <<"nurse,", <<"29-1141.00", "Registered Nurses">> >>,
    <<"nurses", <<"29-1141.00", "Registered Nurses">> >>,
    <<"dentist", <<"29-1021.00", "Dentists, General">> >>,
    <<"pharmacist", <<"29-1051.00", "Pharmacists">> >>,
    <<"veterinarian", <<"29-1131.00", "Veterinarians">> >>,
    <<"optometrist", <<"29-1041.00", "Optometrists">> >>,
    <<"physiotherapist", <<"29-1123.00", "Physical Therapists">> >>,
    <<"therapist", <<"29-1125.00", "Recreational Therapists">> >>,
    <<"paramedic", <<"29-2043.00", "Paramedics">> >>,
    <<"midwife", <<"29-9099.01", "Midwives">> >>,
    <<"ayurveda", <<"29-1291.00", "Acupuncturists">> >>,
    <<"homeopath", <<"29-1291.00", "Acupuncturists">> >>,
    <<"unani", <<"29-1291.00", "Acupuncturists">> >>,
    <<"biologist", <<"19-1029.04", "Biologists">> >>,
    <<"botanist", <<"19-1029.04", "Biologists">> >>,
    <<"zoologist", <<"19-1023.00", "Zoologists and Wildlife Biologists">> >>,
    <<"mycologist", <<"19-1029.04", "Biologists">> >>,
    <<"algologist", <<"19-1029.04", "Biologists">> >>,
    <<"microbiologist", <<"19-1022.00", "Microbiologists">> >>,
    <<"geneticist", <<"19-1029.03", "Geneticists">> >>,
    <<"ecologist", <<"19-2041.03", "Industrial Ecologists">> >>,
    <<"silviculturist", <<"19-1029.04", "Biologists">> >>,
    <<"pisciculturist", <<"19-1029.04", "Biologists">> >>,
    <<"entomologist", <<"19-1029.04", "Biologists">> >>,
    <<"ornithologist", <<"19-1023.00", "Zoologists and Wildlife Biologists">> >>,
    <<"sericulturist", <<"19-1029.04", "Biologists">> >>,
    <<"horticulturist", <<"19-1013.00", "Soil and Plant Scientists">> >>,
    <<"agronomist", <<"19-1013.00", "Soil and Plant Scientists">> >>,
    <<"physicist", <<"19-2012.00", "Physicists">> >>,
    <<"astronomer", <<"19-2011.00", "Astronomers">> >>,
    <<"chemist", <<"19-2031.00", "Chemists">> >>,
    <<"geologist", <<"19-2042.00", "Geoscientists, Except Hydrologists and Geographers">> >>,
    <<"hydrologist", <<"19-2043.00", "Hydrologists">> >>,
    <<"hydrographer", <<"19-2042.00", "Geoscientists, Except Hydrologists and Geographers">> >>,
    <<"meteorologist", <<"19-2021.00", "Atmospheric and Space Scientists">> >>,
    <<"oceanographer", <<"19-2042.00", "Geoscientists, Except Hydrologists and Geographers">> >>,
    <<"seismologist", <<"19-2042.00", "Geoscientists, Except Hydrologists and Geographers">> >>,
    <<"mathematician", <<"15-2021.00", "Mathematicians">> >>,
    <<"statistician", <<"15-2041.00", "Statisticians">> >>,
    <<"actuary", <<"15-2011.00", "Actuaries">> >>,
    <<"economist", <<"19-3011.00", "Economists">> >>,
    <<"sociologist", <<"19-3041.00", "Sociologists">> >>,
    <<"psychologist", <<"19-3031.00", "Psychologists, All Other">> >>,
    <<"anthropologist", <<"19-3091.00", "Anthropologists and Archeologists">> >>,
    <<"archaeologist", <<"19-3091.00", "Anthropologists and Archeologists">> >>,
    <<"historian", <<"19-3093.00", "Historians">> >>,
    <<"geographer", <<"19-3092.00", "Geographers">> >>,
    <<"political scientist", <<"19-3094.00", "Political Scientists">> >>,
    <<"engineer", <<"17-2199.00", "Engineers, All Other">> >>,
    <<"civil engineer", <<"17-2051.00", "Civil Engineers">> >>,
    <<"mechanical engineer", <<"17-2141.00", "Mechanical Engineers">> >>,
    <<"electrical engineer", <<"17-2071.00", "Electrical Engineers">> >>,
    <<"chemical engineer", <<"17-2041.00", "Chemical Engineers">> >>,
    <<"architect", <<"17-1011.00", "Architects, Except Landscape and Naval">> >>,
    <<"surveyor", <<"17-1022.00", "Surveyors">> >>,
    <<"textile technologist", <<"17-2199.00", "Engineers, All Other">> >>,
    <<"sugar technologist", <<"19-1012.00", "Food Scientists and Technologists">> >>,
    <<"food technologist", <<"19-1012.00", "Food Scientists and Technologists">> >>,
    <<"dairy technologist", <<"19-1012.00", "Food Scientists and Technologists">> >>,
    <<"leather technologist", <<"17-2199.00", "Engineers, All Other">> >>,
    <<"farmer", <<"11-9013.00", "Farmers, Ranchers, and Other Agricultural Managers">> >>,
    <<"cultivator", <<"45-2092.00", "Farmworkers and Laborers, Crop, Nursery, and Greenhouse">> >>,
    <<"grower", <<"45-2092.00", "Farmworkers and Laborers, Crop, Nursery, and Greenhouse">> >>,
    <<"planter", <<"45-2092.00", "Farmworkers and Laborers, Crop, Nursery, and Greenhouse">> >>,
    <<"rubber nursery", <<"45-2092.00", "Farmworkers and Laborers, Crop, Nursery, and Greenhouse">> >>,
    <<"rubber plantation", <<"45-2092.00", "Farmworkers and Laborers, Crop, Nursery, and Greenhouse">> >>,
    <<"rubber tapper", <<"45-2092.00", "Farmworkers and Laborers, Crop, Nursery, and Greenhouse">> >>,
    <<"nursery worker", <<"45-2092.00", "Farmworkers and Laborers, Crop, Nursery, and Greenhouse">> >>,
    <<"nursery manager", <<"11-9013.00", "Farmers, Ranchers, and Other Agricultural Managers">> >>,
    <<"plantation manager", <<"11-9013.00", "Farmers, Ranchers, and Other Agricultural Managers">> >>,
    <<"gardener", <<"37-3011.00", "Landscaping and Groundskeeping Workers">> >>,
    <<"horticulture", <<"45-2092.00", "Farmworkers and Laborers, Crop, Nursery, and Greenhouse">> >>,
    <<"forester", <<"19-1032.00", "Foresters">> >>,
    <<"forest ranger", <<"19-1032.00", "Foresters">> >>,
    <<"pilot", <<"53-2011.00", "Airline Pilots, Copilots, and Flight Engineers">> >>,
    <<"captain", <<"53-5021.00", "Captains, Mates, and Pilots of Water Vessels">> >>,
    <<"driver", <<"53-3032.00", "Heavy and Tractor-Trailer Truck Drivers">> >>,
    <<"station master", <<"11-1021.00", "General and Operations Managers">> >>,
    <<"train", <<"53-4011.00", "Locomotive Engineers">> >>,
    <<"restorer", <<"25-4013.00", "Museum Technicians and Conservators">> >>,
    <<"conservator", <<"25-4013.00", "Museum Technicians and Conservators">> >>,
    <<"curator", <<"25-4012.00", "Curators">> >>,
    <<"librarian", <<"25-4022.00", "Librarians and Media Collections Specialists">> >>,
    <<"archivist", <<"25-4011.00", "Archivists">> >>,
    <<"musician", <<"27-2042.00", "Musicians and Singers">> >>,
    <<"singer", <<"27-2042.00", "Musicians and Singers">> >>,
    <<"actor", <<"27-2011.00", "Actors">> >>,
    <<"dancer", <<"27-2031.00", "Dancers">> >>,
    <<"choreographer", <<"27-2032.00", "Choreographers">> >>,
    <<"artist", <<"27-1013.00", "Fine Artists, Including Painters, Sculptors, and Illustrators">> >>,
    <<"painter", <<"27-1013.00", "Fine Artists, Including Painters, Sculptors, and Illustrators">> >>,
    <<"sculptor", <<"27-1013.00", "Fine Artists, Including Painters, Sculptors, and Illustrators">> >>,
    <<"photographer", <<"27-4021.00", "Photographers">> >>,
    <<"journalist", <<"27-3023.00", "News Analysts, Reporters, and Journalists">> >>,
    <<"reporter", <<"27-3023.00", "News Analysts, Reporters, and Journalists">> >>,
    <<"editor", <<"27-3041.00", "Editors">> >>,
    <<"writer", <<"27-3043.00", "Writers and Authors">> >>,
    <<"author", <<"27-3043.00", "Writers and Authors">> >>,
    <<"instrument maker", <<"49-9063.00", "Musical Instrument Repairers and Tuners">> >>,
    <<"instrument tuner", <<"49-9063.00", "Musical Instrument Repairers and Tuners">> >>,
    <<"organ tuner", <<"49-9063.00", "Musical Instrument Repairers and Tuners">> >>,
    <<"piano tuner", <<"49-9063.00", "Musical Instrument Repairers and Tuners">> >>,
    <<"tabla maker", <<"49-9063.00", "Musical Instrument Repairers and Tuners">> >>,
    <<"sitar maker", <<"49-9063.00", "Musical Instrument Repairers and Tuners">> >>,
    <<"harmonium", <<"49-9063.00", "Musical Instrument Repairers and Tuners">> >>,
    <<"welder", <<"51-4121.00", "Welders, Cutters, Solderers, and Brazers">> >>,
    <<"blacksmith", <<"51-4199.00", "Metal Workers and Plastic Workers, All Other">> >>,
    <<"goldsmith", <<"51-9071.00", "Jewelers and Precious Stone and Metal Workers">> >>,
    <<"silversmith", <<"51-9071.00", "Jewelers and Precious Stone and Metal Workers">> >>,
    <<"jeweller", <<"51-9071.00", "Jewelers and Precious Stone and Metal Workers">> >>,
    <<"potter", <<"51-9195.05", "Potters, Manufacturing">> >>,
    <<"glass blower", <<"51-9195.04", "Glass Blowers, Molders, Benders, and Finishers">> >>,
    <<"baker", <<"51-3011.00", "Bakers">> >>,
    <<"butcher", <<"51-3021.00", "Butchers and Meat Cutters">> >>,
    <<"tailor", <<"51-6052.00", "Tailors, Dressmakers, and Custom Sewers">> >>,
    <<"carpenter", <<"47-2031.00", "Carpenters">> >>,
    <<"mason", <<"47-2021.00", "Brickmasons and Blockmasons">> >>,
    <<"plumber", <<"47-2152.00", "Plumbers, Pipefitters, and Steamfitters">> >>,
    <<"electrician", <<"47-2111.00", "Electricians">> >>,
    <<"plant operator", <<"51-8099.00", "Plant and System Operators, All Other">> >>,
    <<"machine operator", <<"51-9199.00", "Production Workers, All Other">> >>,
    <<"factory", <<"51-9199.00", "Production Workers, All Other">> >>,
    <<"manufacturing", <<"51-9199.00", "Production Workers, All Other">> >>,
    <<"glass plant", <<"51-9195.04", "Glass Blowers, Molders, Benders, and Finishers">> >>,
    <<"ceramic plant", <<"51-9195.00", "Molders, Shapers, and Casters, Except Metal and Plastic">> >>,
    <<"waiter", <<"35-3031.00", "Waiters and Waitresses">> >>,
    <<"cook", <<"35-2014.00", "Cooks, Restaurant">> >>,
    <<"chef", <<"35-1011.00", "Chefs and Head Cooks">> >>,
    <<"barber", <<"39-5011.00", "Barbers">> >>,
    <<"hairdresser", <<"39-5012.00", "Hairdressers, Hairstylists, and Cosmetologists">> >>,
    <<"beautician", <<"39-5012.00", "Hairdressers, Hairstylists, and Cosmetologists">> >>,
    <<"police", <<"33-3051.00", "Police and Sheriff's Patrol Officers">> >>,
    <<"constable", <<"33-3051.00", "Police and Sheriff's Patrol Officers">> >>,
    <<"guard", <<"33-9032.00", "Security Guards">> >>,
    <<"watchman", <<"33-9032.00", "Security Guards">> >>,
    <<"security", <<"33-9032.00", "Security Guards">> >>,
    <<"firefighter", <<"33-2011.00", "Firefighters">> >>,
    <<"fireman", <<"33-2011.00", "Firefighters">> >>,
    <<"porter", <<"39-6011.00", "Baggage Porters and Bellhops">> >>,
    <<"bellhop", <<"39-6011.00", "Baggage Porters and Bellhops">> >>,
    <<"doorkeeper", <<"39-6011.00", "Baggage Porters and Bellhops">> >>,
    <<"concierge", <<"39-6012.00", "Concierges">> >>,
    <<"clerk", <<"43-9061.00", "Office Clerks, General">> >>,
    <<"secretary", <<"43-6014.00", "Secretaries and Administrative Assistants, Except Legal, Medical, and Executive">> >>,
    <<"typist", <<"43-9022.00", "Word Processors and Typists">> >>,
    <<"receptionist", <<"43-4171.00", "Receptionists and Information Clerks">> >>,
    <<"cashier", <<"41-2011.00", "Cashiers">> >>,
    <<"accountant", <<"13-2011.00", "Accountants and Auditors">> >>,
    <<"auditor", <<"13-2011.00", "Accountants and Auditors">> >>,
    <<"miner", <<"47-5041.00", "Continuous Mining Machine Operators">> >>,
    <<"quarry", <<"47-5041.00", "Continuous Mining Machine Operators">> >>,
    <<"driller", <<"47-5012.00", "Rotary Drill Operators, Oil and Gas">> >>,
    <<"concrete", <<"47-2051.00", "Cement Masons and Concrete Finishers">> >>,
    <<"mould", <<"51-4071.00", "Foundry Mold and Coremakers">> >>,
    <<"moulder", <<"51-4071.00", "Foundry Mold and Coremakers">> >>
  >>

\* The 4-digit NCO prefix fallback table, in insertion order.
NCO_PREFIX_DEFAULTS ==
  <<
    <<"1111", <<"11-1031.00", "Legislators">> >>,
    <<"1112", <<"11-1011.00", "Chief Executives">> >>,
    <<"1113", <<"11-1011.00", "Chief Executives">> >>,
    <<"1114", <<"11-1011.00", "Chief Executives">> >>,
    <<"1120", <<"11-1011.00", "Chief Executives">> >>,
    <<"1211", <<"11-3031.00", "Financial Managers">> >>,
    <<"1212", <<"11-3121.00", "Human Resources Managers">> >>,
    <<"1213", <<"11-1021.00", "General and Operations Managers">> >>,
    <<"1219", <<"11-1021.00", "General and Operations Managers">> >>,
    <<"1221", <<"11-2022.00", "Sales Managers">> >>,
    <<"1222", <<"11-2011.00", "Advertising and Promotions Managers">> >>,
    <<"1223", <<"11-9041.00", "Architectural and Engineering Managers">> >>,
    <<"1311", <<"11-9013.00", "Farmers, Ranchers, and Other Agricultural Managers">> >>,
    <<"1312", <<"11-9013.00", "Farmers, Ranchers, and Other Agricultural Managers">> >>,
    <<"1321", <<"11-3051.00", "Industrial Production Managers">> >>,
    <<"1322", <<"11-9041.00", "Architectural and Engineering Managers">> >>,
    <<"1323", <<"11-9021.00", "Construction Managers">> >>,
    <<"1324", <<"11-3071.00", "Transportation, Storage, and Distribution Managers">> >>,
    <<"1330", <<"11-3021.00", "Computer and Information Systems Managers">> >>,
    <<"1341", <<"11-9031.00", "Education and Childcare Administrators, Preschool and Daycare">> >>,
    <<"1342", <<"11-9111.00", "Medical and Health Services Managers">> >>,
    <<"1343", <<"11-9111.00", "Medical and Health Services Managers">> >>,
    <<"1344", <<"11-9151.00", "Social and Community Service Managers">> >>,
    <<"1345", <<"11-9032.00", "Education Administrators, Kindergarten through Secondary">> >>,
    <<"1346", <<"11-3031.00", "Financial Managers">> >>,
    <<"1349", <<"11-1021.00", "General and Operations Managers">> >>,
    <<"1411", <<"11-9081.00", "Lodging Managers">> >>,
    <<"1412", <<"11-9051.00", "Food Service Managers">> >>,
    <<"1420", <<"11-1021.00", "General and Operations Managers">> >>,
    <<"1431", <<"11-9072.00", "Entertainment and Recreation Managers, Except Gambling">> >>,
    <<"1439", <<"11-1021.00", "General and Operations Managers">> >>,
    <<"2111", <<"19-2012.00", "Physicists">> >>,
    <<"2112", <<"19-2021.00", "Atmospheric and Space Scientists">> >>,
    <<"2113", <<"19-2031.00", "Chemists">> >>,
    <<"2114", <<"19-2042.00", "Geoscientists, Except Hydrologists and Geographers">> >>,
    <<"2120", <<"15-2041.00", "Statisticians">> >>,
    <<"2131", <<"19-1029.04", "Biologists">> >>,
    <<"2132", <<"19-1031.00", "Conservation Scientists">> >>,
    <<"2133", <<"19-2041.00", "Environmental Scientists and Specialists, Including Health">> >>,
    <<"2141", <<"17-2112.00", "Industrial Engineers">> >>,
    <<"2142", <<"17-2051.00", "Civil Engineers">> >>,
    <<"2143", <<"17-2081.00", "Environmental Engineers">> >>,
    <<"2144", <<"17-2141.00", "Mechanical Engineers">> >>,
    <<"2145", <<"17-2041.00", "Chemical Engineers">> >>,
    <<"2146", <<"17-2151.00", "Mining and Geological Engineers, Including Mining Safety Engineers">> >>,
    <<"2149", <<"17-2199.00", "Engineers, All Other">> >>,
    <<"2151", <<"17-2071.00", "Electrical Engineers">> >>,
    <<"2152", <<"17-2072.00", "Electronics Engineers, Except Computer">> >>,
    <<"2153", <<"17-2072.00", "Electronics Engineers, Except Computer">> >>,
    <<"2161", <<"17-1011.00", "Architects, Except Landscape and Naval">> >>,
    <<"2162", <<"17-1012.00", "Landscape Architects">> >>,
    <<"2163", <<"27-1021.00", "Commercial and Industrial Designers">> >>,
    <<"2164", <<"19-3051.00", "Urban and Regional Planners">> >>,
    <<"2165", <<"17-1021.00", "Cartographers and Photogrammetrists">> >>,
    <<"2166", <<"27-1024.00", "Graphic Designers">> >>,
    <<"2211", <<"29-1216.00", "General Internal Medicine Physicians">> >>,
    <<"2212", <<"29-1229.00", "Physicians, All Other">> >>,
    <<"2221", <<"29-1141.00", "Registered Nurses">> >>,
    <<"2222", <<"29-9099.01", "Midwives">> >>,
    <<"2230", <<"29-1291.00", "Acupuncturists">> >>,
    <<"2240", <<"29-2041.00", "Emergency Medical Technicians">> >>,
    <<"2250", <<"29-1131.00", "Veterinarians">> >>,
    <<"2261", <<"29-1021.00", "Dentists, General">> >>,
    <<"2262", <<"29-1051.00", "Pharmacists">> >>,
    <<"2263", <<"19-2041.00", "Environmental Scientists and Specialists, Including Health">> >>,
    <<"2264", <<"29-1123.00", "Physical Therapists">> >>,
    <<"2265", <<"29-1031.00", "Dietitians and Nutritionists">> >>,
    <<"2266", <<"29-1181.00", "Audiologists">> >>,
    <<"2267", <<"29-1041.00", "Optometrists">> >>,
    <<"2269", <<"29-1299.00", "Healthcare Diagnosing or Treating Practitioners, All Other">> >>,
    <<"2310", <<"25-1099.00", "Postsecondary Teachers, All Other">> >>,
    <<"2320", <<"25-1194.00", "Career/Technical Education Teachers, Postsecondary">> >>,
    <<"2330", <<"25-2031.00", "Secondary School Teachers, Except Special and Career/Technical Education">> >>,
    <<"2341", <<"25-2021.00", "Elementary School Teachers, Except Special Education">> >>,
    <<"2342", <<"25-2011.00", "Preschool Teachers, Except Special Education">> >>,
    <<"2351", <<"25-9031.00", "Instructional Coordinators">> >>,
    <<"2352", <<"25-2059.00", "Special Education Teachers, All Other">> >>,
    <<"2353", <<"25-3011.00", "Adult Basic Education, Adult Secondary Education, and English as a Second Language Instructors">> >>,
    <<"2354", <<"25-1121.00", "Art, Drama, and Music Teachers, Postsecondary">> >>,
    <<"2355", <<"25-1121.00", "Art, Drama, and Music Teachers, Postsecondary">> >>,
    <<"2356", <<"25-1021.00", "Computer Science Teachers, Postsecondary">> >>,
    <<"2359", <<"25-3099.00", "Teachers and Instructors, All Other">> >>,
    <<"2411", <<"13-2011.00", "Accountants and Auditors">> >>,
    <<"2412", <<"13-2051.00", "Financial and Investment Analysts">> >>,
    <<"2413", <<"13-2051.00", "Financial and Investment Analysts">> >>,
    <<"2421", <<"13-1111.00", "Management Analysts">> >>,
    <<"2422", <<"13-1111.00", "Management Analysts">> >>,
    <<"2423", <<"13-1071.00", "Human Resources Specialists">> >>,
    <<"2424", <<"13-1151.00", "Training and Development Specialists">> >>,
    <<"2431", <<"13-1161.00", "Market Research Analysts and Marketing Specialists">> >>,
    <<"2432", <<"27-3031.00", "Public Relations Specialists">> >>,
    <<"2433", <<"41-4011.00", "Sales Representatives, Wholesale and Manufacturing, Technical and Scientific Products">> >>,
    <<"2434", <<"41-4011.00", "Sales Representatives, Wholesale and Manufacturing, Technical and Scientific Products">> >>,
    <<"2511", <<"15-1211.00", "Computer Systems Analysts">> >>,
    <<"2512", <<"15-1252.00", "Software Developers">> >>,
    <<"2513", <<"15-1254.00", "Web Developers">> >>,
    <<"2514", <<"15-1251.00", "Computer Programmers">> >>,
    <<"2519", <<"15-1299.00", "Computer Occupations, All Other">> >>,
    <<"2521", <<"15-1242.00", "Database Administrators">> >>,
    <<"2522", <<"15-1244.00", "Network and Computer Systems Administrators">> >>,
    <<"2523", <<"15-1241.00", "Computer Network Architects">> >>,
    <<"2529", <<"15-1299.00", "Computer Occupations, All Other">> >>,
    <<"2611", <<"23-1011.00", "Lawyers">> >>,
    <<"2612", <<"23-1023.00", "Judges, Magistrate Judges, and Magistrates">> >>,
    <<"2619", <<"23-1011.00", "Lawyers">> >>,
    <<"2621", <<"25-4011.00", "Archivists">> >>,
    <<"2622", <<"25-4022.00", "Librarians and Media Collections Specialists">> >>,
    <<"2631", <<"19-3011.00", "Economists">> >>,
    <<"2632", <<"19-3041.00", "Sociologists">> >>,
    <<"2633", <<"25-1126.00", "Philosophy and Religion Teachers, Postsecondary">> >>,
    <<"2634", <<"19-3031.00", "Psychologists, All Other">> >>,
    <<"2635", <<"21-1029.00", "Social Workers, All Other">> >>,
    <<"2636", <<"21-2011.00", "Clergy">> >>,
    <<"2641", <<"27-3043.00", "Writers and Authors">> >>,
    <<"2642", <<"27-3023.00", "News Analysts, Reporters, and Journalists">> >>,
    <<"2643", <<"27-3091.00", "Interpreters and Translators">> >>,
    <<"2651", <<"27-1013.00", "Fine Artists, Including Painters, Sculptors, and Illustrators">> >>,
    <<"2652", <<"27-2042.00", "Musicians and Singers">> >>,
    <<"2653", <<"27-2031.00", "Dancers">> >>,
    <<"2654", <<"27-2012.00", "Producers and Directors">> >>,
    <<"2655", <<"27-2011.00", "Actors">> >>,
    <<"2656", <<"27-3011.00", "Broadcast Announcers and Radio Disc Jockeys">> >>,
    <<"2659", <<"27-2099.00", "Entertainers and Performers, Sports and Related Workers, All Other">> >>,
    <<"3111", <<"19-4031.00", "Chemical Technicians">> >>,
    <<"3112", <<"17-3022.00", "Civil Engineering Technologists and Technicians">> >>,
    <<"3113", <<"17-3023.00", "Electrical and Electronic Engineering Technologists and Technicians">> >>,
    <<"3114", <<"17-3023.00", "Electrical and Electronic Engineering Technologists and Technicians">> >>,
    <<"3115", <<"17-3027.00", "Mechanical Engineering Technologists and Technicians">> >>,
    <<"3116", <<"19-4031.00", "Chemical Technicians">> >>,
    <<"3117", <<"19-4041.00", "Geological Technicians, Except Hydrologic Technicians">> >>,
    <<"3118", <<"17-3011.00", "Architectural and Civil Drafters">> >>,
    <<"3119", <<"17-3029.00", "Engineering Technologists and Technicians, Except Drafters, All Other">> >>,
    <<"3121", <<"47-1011.00", "First-Line Supervisors of Construction Trades and Extraction Workers">> >>,
    <<"3122", <<"51-1011.00", "First-Line Supervisors of Production and Operating Workers">> >>,
    <<"3123", <<"47-1011.00", "First-Line Supervisors of Construction Trades and Extraction Workers">> >>,
    <<"3131", <<"51-8013.00", "Power Plant Operators">> >>,
    <<"3132", <<"51-8031.00", "Water and Wastewater Treatment Plant and System Operators">> >>,
    <<"3133", <<"51-8091.00", "Chemical Plant and System Operators">> >>,
    <<"3134", <<"51-8093.00", "Petroleum Pump System Operators, Refinery Operators, and Gaugers">> >>,
    <<"3135", <<"51-4051.00", "Metal-Refining Furnace Operators and Tenders">> >>,
    <<"3139", <<"51-8099.00", "Plant and System Operators, All Other">> >>,
    <<"3141", <<"19-4021.00", "Biological Technicians">> >>,
    <<"3142", <<"19-4012.00", "Agricultural Technicians">> >>,
    <<"3143", <<"19-4071.00", "Forest and Conservation Technicians">> >>,
    <<"3151", <<"53-5031.00", "Ship Engineers">> >>,
    <<"3152", <<"53-5021.00", "Captains, Mates, and Pilots of Water Vessels">> >>,
    <<"3153", <<"53-2011.00", "Airline Pilots, Copilots, and Flight Engineers">> >>,
    <<"3154", <<"53-2021.00", "Air Traffic Controllers">> >>,
    <<"3155", <<"49-3011.00", "Aircraft Mechanics and Service Technicians">> >>,
    <<"3211", <<"29-2034.00", "Radiologic Technologists and Technicians">> >>,
    <<"3212", <<"29-2012.00", "Medical and Clinical Laboratory Technicians">> >>,
    <<"3213", <<"29-2052.00", "Pharmacy Technicians">> >>,
    <<"3214", <<"51-9081.00", "Dental Laboratory Technicians">> >>,
    <<"3219", <<"29-2099.00", "Health Technologists and Technicians, All Other">> >>,
    <<"3221", <<"29-2061.00", "Licensed Practical and Licensed Vocational Nurses">> >>,
    <<"3222", <<"29-9099.01", "Midwives">> >>,
    <<"3230", <<"29-1299.00", "Healthcare Diagnosing or Treating Practitioners, All Other">> >>,
    <<"3240", <<"29-2056.00", "Veterinary Technologists and Technicians">> >>,
    <<"3251", <<"31-9091.00", "Dental Assistants">> >>,
    <<"3252", <<"29-2072.00", "Medical Records Specialists">> >>,
    <<"3253", <<"21-1094.00", "Community Health Workers">> >>,
    <<"3254", <<"29-2081.00", "Opticians, Dispensing">> >>,
    <<"3255", <<"31-2021.00", "Physical Therapist Assistants">> >>,
    <<"3256", <<"31-9092.00", "Medical Assistants">> >>,
    <<"3257", <<"19-4042.00", "Environmental Science and Protection Technicians, Including Health">> >>,
    <<"3258", <<"29-2042.00", "Emergency Medical Technicians">> >>,
    <<"3259", <<"31-9099.00", "Healthcare Support Workers, All Other">> >>,
    <<"3311", <<"41-3031.00", "Securities, Commodities, and Financial Services Sales Agents">> >>,
    <<"3312", <<"13-2072.00", "Loan Officers">> >>,
    <<"3313", <<"43-3031.00", "Bookkeeping, Accounting, and Auditing Clerks">> >>,
    <<"3314", <<"43-9111.00", "Statistical Assistants">> >>,
    <<"3315", <<"13-2023.00", "Appraisers and Assessors of Real Estate">> >>,
    <<"3321", <<"41-3021.00", "Insurance Sales Agents">> >>,
    <<"3322", <<"41-4012.00", "Sales Representatives, Wholesale and Manufacturing, Except Technical and Scientific Products">> >>,
    <<"3323", <<"13-1022.00", "Wholesale and Retail Buyers, Except Farm Products">> >>,
    <<"3324", <<"41-3031.00", "Securities, Commodities, and Financial Services Sales Agents">> >>,
    <<"3331", <<"43-5011.00", "Cargo and Freight Agents">> >>,
    <<"3332", <<"13-1121.00", "Meeting, Convention, and Event Planners">> >>,
    <<"3333", <<"13-1071.00", "Human Resources Specialists">> >>,
    <<"3334", <<"41-9022.00", "Real Estate Sales Agents">> >>,
    <<"3339", <<"13-1199.00", "Business Operations Specialists, All Other">> >>,
    <<"3341", <<"43-1011.00", "First-Line Supervisors of Office and Administrative Support Workers">> >>,
    <<"3342", <<"43-6012.00", "Legal Secretaries and Administrative Assistants">> >>,
    <<"3343", <<"43-6011.00", "Executive Secretaries and Executive Administrative Assistants">> >>,
    <<"3344", <<"43-6013.00", "Medical Secretaries and Administrative Assistants">> >>,
    <<"3351", <<"33-3051.04", "Customs and Border Protection Officers">> >>,
    <<"3352", <<"13-2081.00", "Tax Examiners and Collectors, and Revenue Agents">> >>,
    <<"3353", <<"43-4061.00", "Eligibility Interviewers, Government Programs">> >>,
    <<"3354", <<"43-4031.00", "Court, Municipal, and License Clerks">> >>,
    <<"3355", <<"33-3021.00", "Detectives and Criminal Investigators">> >>,
    <<"3359", <<"13-1041.00", "Compliance Officers">> >>,
    <<"3411", <<"23-2011.00", "Paralegals and Legal Assistants">> >>,
    <<"3412", <<"21-1093.00", "Social and Human Service Assistants">> >>,
    <<"3413", <<"21-2099.00", "Religious Workers, All Other">> >>,
    <<"3421", <<"27-2021.00", "Athletes and Sports Competitors">> >>,
    <<"3422", <<"27-2022.00", "Coaches and Scouts">> >>,
    <<"3423", <<"39-9031.00", "Exercise Trainers and Group Fitness Instructors">> >>,
    <<"3431", <<"27-4021.00", "Photographers">> >>,
    <<"3432", <<"27-1025.00", "Interior Designers">> >>,
    <<"3433", <<"25-4013.00", "Museum Technicians and Conservators">> >>,
    <<"3434", <<"35-1011.00", "Chefs and Head Cooks">> >>,
    <<"3435", <<"27-1019.00", "Artists and Related Workers, All Other">> >>,
    <<"3511", <<"15-1232.00", "Computer User Support Specialists">> >>,
    <<"3512", <<"15-1232.00", "Computer User Support Specialists">> >>,
    <<"3513", <<"15-1231.00", "Computer Network Support Specialists">> >>,
    <<"3514", <<"15-1254.00", "Web Developers">> >>,
    <<"3521", <<"27-4011.00", "Audio and Video Technicians">> >>,
    <<"3522", <<"49-2022.00", "Telecommunications Equipment Installers and Repairers, Except Line Installers">> >>,
    <<"4110", <<"43-9061.00", "Office Clerks, General">> >>,
    <<"4120", <<"43-6014.00", "Secretaries and Administrative Assistants, Except Legal, Medical, and Executive">> >>,
    <<"4131", <<"43-9022.00", "Word Processors and Typists">> >>,
    <<"4132", <<"43-9021.00", "Data Entry Keyers">> >>,
    <<"4211", <<"43-3071.00", "Tellers">> >>,
    <<"4212", <<"43-3041.00", "Gambling Cage Workers">> >>,
    <<"4213", <<"13-2072.00", "Loan Officers">> >>,
    <<"4214", <<"43-3011.00", "Bill and Account Collectors">> >>,
    <<"4221", <<"41-3041.00", "Travel Agents">> >>,
    <<"4222", <<"43-4051.00", "Customer Service Representatives">> >>,
    <<"4223", <<"43-2021.00", "Telephone Operators">> >>,
    <<"4224", <<"43-4081.00", "Hotel, Motel, and Resort Desk Clerks">> >>,
    <<"4225", <<"43-4171.00", "Receptionists and Information Clerks">> >>,
    <<"4226", <<"43-4171.00", "Receptionists and Information Clerks">> >>,
    <<"4227", <<"43-4111.00", "Interviewers, Except Eligibility and Loan">> >>,
    <<"4229", <<"43-4199.00", "Information and Record Clerks, All Other">> >>,
    <<"4311", <<"43-3031.00", "Bookkeeping, Accounting, and Auditing Clerks">> >>,
    <<"4312", <<"43-9111.00", "Statistical Assistants">> >>,
    <<"4313", <<"43-3051.00", "Payroll and Timekeeping Clerks">> >>,
    <<"4321", <<"43-5071.00", "Shipping, Receiving, and Inventory Clerks">> >>,
    <<"4322", <<"43-5061.00", "Production, Planning, and Expediting Clerks">> >>,
    <<"4323", <<"43-5011.00", "Cargo and Freight Agents">> >>,
    <<"4411", <<"43-4121.00", "Library Assistants, Clerical">> >>,
    <<"4412", <<"43-9051.00", "Mail Clerks and Mail Machine Operators, Except Postal Service">> >>,
    <<"4413", <<"43-9081.00", "Proofreaders and Copy Markers">> >>,
    <<"4414", <<"43-9022.00", "Word Processors and Typists">> >>,
    <<"4415", <<"43-4071.00", "File Clerks">> >>,
    <<"4416", <<"43-4161.00", "Human Resources Assistants, Except Payroll and Timekeeping">> >>,
    <<"4419", <<"43-9199.00", "Office and Administrative Support Workers, All Other">> >>,
    <<"5111", <<"53-2031.00", "Flight Attendants">> >>,
    <<"5112", <<"53-4031.00", "Railroad Conductors and Yardmasters">> >>,
    <<"5113", <<"39-7011.00", "Tour Guides and Escorts">> >>,
    <<"5120", <<"35-2014.00", "Cooks, Restaurant">> >>,
    <<"5131", <<"35-3031.00", "Waiters and Waitresses">> >>,
    <<"5132", <<"35-3011.00", "Bartenders">> >>,
    <<"5141", <<"39-5012.00", "Hairdressers, Hairstylists, and Cosmetologists">> >>,
    <<"5142", <<"39-5012.00", "Hairdressers, Hairstylists, and Cosmetologists">> >>,
    <<"5151", <<"37-2011.00", "Janitors and Cleaners, Except Maids and Housekeeping Cleaners">> >>,
    <<"5152", <<"37-2012.00", "Maids and Housekeeping Cleaners">> >>,
    <<"5153", <<"37-1011.00", "First-Line Supervisors of Housekeeping and Janitorial Workers">> >>,
    <<"5161", <<"39-9099.00", "Personal Care and Service Workers, All Other">> >>,
    <<"5162", <<"39-9099.00", "Personal Care and Service Workers, All Other">> >>,
    <<"5163", <<"39-4031.00", "Morticians, Undertakers, and Funeral Arrangers">> >>,
    <<"5164", <<"39-2021.00", "Animal Caretakers">> >>,
    <<"5165", <<"25-3021.00", "Self-Enrichment Teachers">> >>,
    <<"5169", <<"39-9099.00", "Personal Care and Service Workers, All Other">> >>,
    <<"5211", <<"41-2031.00", "Retail Salespersons">> >>,
    <<"5212", <<"41-9091.00", "Door-to-Door Sales Workers, News and Street Vendors, and Related Workers">> >>,
    <<"5221", <<"41-1011.00", "First-Line Supervisors of Retail Sales Workers">> >>,
    <<"5222", <<"41-1011.00", "First-Line Supervisors of Retail Sales Workers">> >>,
    <<"5223", <<"41-2031.00", "Retail Salespersons">> >>,
    <<"5230", <<"41-2011.00", "Cashiers">> >>,
    <<"5241", <<"41-9012.00", "Models">> >>,
    <<"5242", <<"41-9011.00", "Demonstrators and Product Promoters">> >>,
    <<"5243", <<"41-9091.00", "Door-to-Door Sales Workers, News and Street Vendors, and Related Workers">> >>,
    <<"5244", <<"41-9041.00", "Telemarketers">> >>,
    <<"5245", <<"53-6031.00", "Automotive and Watercraft Service Attendants">> >>,
    <<"5246", <<"35-3023.00", "Fast Food and Counter Workers">> >>,
    <<"5249", <<"41-9099.00", "Sales and Related Workers, All Other">> >>,
    <<"5311", <<"39-9011.00", "Childcare Workers">> >>,
    <<"5312", <<"25-9042.00", "Teaching Assistants, Preschool, Elementary, Middle, and Secondary School, Except Special Education">> >>,
    <<"5321", <<"31-1121.00", "Home Health Aides">> >>,
    <<"5322", <<"31-1122.00", "Personal Care Aides">> >>,
    <<"5329", <<"31-9099.00", "Healthcare Support Workers, All Other">> >>,
    <<"5411", <<"33-2011.00", "Firefighters">> >>,
    <<"5412", <<"33-3051.00", "Police and Sheriff's Patrol Officers">> >>,
    <<"5413", <<"33-3012.00", "Correctional Officers and Jailers">> >>,
    <<"5414", <<"33-9032.00", "Security Guards">> >>,
    <<"5419", <<"33-9099.00", "Protective Service Workers, All Other">> >>,
    <<"6111", <<"45-2092.00", "Farmworkers and Laborers, Crop, Nursery, and Greenhouse">> >>,
    <<"6112", <<"45-2092.00", "Farmworkers and Laborers, Crop, Nursery, and Greenhouse">> >>,
    <<"6113", <<"37-3011.00", "Landscaping and Groundskeeping Workers">> >>,
    <<"6114", <<"45-2092.00", "Farmworkers and Laborers, Crop, Nursery, and Greenhouse">> >>,
    <<"6121", <<"45-2021.00", "Animal Breeders">> >>,
    <<"6122", <<"45-2093.00", "Farmworkers, Farm, Ranch, and Aquacultural Animals">> >>,
    <<"6123", <<"45-2093.00", "Farmworkers, Farm, Ranch, and Aquacultural Animals">> >>,
    <<"6129", <<"45-2093.00", "Farmworkers, Farm, Ranch, and Aquacultural Animals">> >>,
    <<"6130", <<"45-2093.00", "Farmworkers, Farm, Ranch, and Aquacultural Animals">> >>,
    <<"6210", <<"45-4011.00", "Forest and Conservation Workers">> >>,
    <<"6221", <<"45-3031.00", "Fishing and Hunting Workers">> >>,
    <<"6222", <<"45-3031.00", "Fishing and Hunting Workers">> >>,
    <<"6223", <<"45-3031.00", "Fishing and Hunting Workers">> >>,
    <<"6224", <<"45-3031.00", "Fishing and Hunting Workers">> >>,
    <<"7111", <<"47-2061.00", "Construction Laborers">> >>,
    <<"7112", <<"47-2021.00", "Brickmasons and Blockmasons">> >>,
    <<"7113", <<"47-2022.00", "Stonemasons">> >>,
    <<"7114", <<"47-2051.00", "Cement Masons and Concrete Finishers">> >>,
    <<"7115", <<"47-2031.00", "Carpenters">> >>,
    <<"7119", <<"47-2061.00", "Construction Laborers">> >>,
    <<"7121", <<"47-2181.00", "Roofers">> >>,
    <<"7122", <<"47-2044.00", "Tile and Stone Setters">> >>,
    <<"7123", <<"47-2161.00", "Plasterers and Stucco Masons">> >>,
    <<"7124", <<"47-2131.00", "Insulation Workers, Floor, Ceiling, and Wall">> >>,
    <<"7125", <<"47-2121.00", "Glaziers">> >>,
    <<"7126", <<"47-2152.00", "Plumbers, Pipefitters, and Steamfitters">> >>,
    <<"7127", <<"49-9021.00", "Heating, Air Conditioning, and Refrigeration Mechanics and Installers">> >>,
    <<"7131", <<"47-2141.00", "Painters, Construction and Maintenance">> >>,
    <<"7132", <<"51-9124.00", "Coating, Painting, and Spraying Machine Setters, Operators, and Tenders">> >>,
    <<"7133", <<"37-2011.00", "Janitors and Cleaners, Except Maids and Housekeeping Cleaners">> >>,
    <<"7211", <<"51-4071.00", "Foundry Mold and Coremakers">> >>,
    <<"7212", <<"51-4121.00", "Welders, Cutters, Solderers, and Brazers">> >>,
    <<"7213", <<"47-2211.00", "Sheet Metal Workers">> >>,
    <<"7214", <<"51-2041.00", "Structural Metal Fabricators and Fitters">> >>,
    <<"7215", <<"49-9096.00", "Riggers">> >>,
    <<"7221", <<"51-4199.00", "Metal Workers and Plastic Workers, All Other">> >>,
    <<"7222", <<"51-4111.00", "Tool and Die Makers">> >>,
    <<"7223", <<"51-4041.00", "Machinists">> >>,
    <<"7224", <<"51-4033.00", "Grinding, Lapping, Polishing, and Buffing Machine Tool Setters, Operators, and Tenders, Metal and Plastic">> >>,
    <<"7231", <<"49-3023.00", "Automotive Service Technicians and Mechanics">> >>,
    <<"7232", <<"49-3011.00", "Aircraft Mechanics and Service Technicians">> >>,
    <<"7233", <<"49-3041.00", "Farm Equipment Mechanics and Service Technicians">> >>,
    <<"7234", <<"49-3091.00", "Bicycle Repairers">> >>,
    <<"7311", <<"49-9064.00", "Watch and Clock Repairers">> >>,
    <<"7312", <<"49-9063.00", "Musical Instrument Repairers and Tuners">> >>,
    <<"7313", <<"51-9071.00", "Jewelers and Precious Stone and Metal Workers">> >>,
    <<"7314", <<"51-9195.05", "Potters, Manufacturing">> >>,
    <<"7315", <<"51-9195.04", "Glass Blowers, Molders, Benders, and Finishers">> >>,
    <<"7316", <<"27-1024.00", "Graphic Designers">> >>,
    <<"7317", <<"51-7099.00", "Woodworkers, All Other">> >>,
    <<"7318", <<"51-6099.00", "Textile, Apparel, and Furnishings Workers, All Other">> >>,
    <<"7319", <<"51-9199.00", "Production Workers, All Other">> >>,
    <<"7321", <<"51-5111.00", "Prepress Technicians and Workers">> >>,
    <<"7322", <<"51-5112.00", "Printing Press Operators">> >>,
    <<"7323", <<"51-5113.00", "Print Binding and Finishing Workers">> >>,
    <<"7411", <<"47-2111.00", "Electricians">> >>,
    <<"7412", <<"49-2092.00", "Electric Motor, Power Tool, and Related Repairers">> >>,
    <<"7413", <<"49-9051.00", "Electrical Power-Line Installers and Repairers">> >>,
    <<"7421", <<"49-2094.00", "Electrical and Electronics Repairers, Commercial and Industrial Equipment">> >>,
    <<"7422", <<"49-2022.00", "Telecommunications Equipment Installers and Repairers, Except Line Installers">> >>,
    <<"7511", <<"51-3021.00", "Butchers and Meat Cutters">> >>,
    <<"7512", <<"51-3011.00", "Bakers">> >>,
    <<"7513", <<"51-3092.00", "Food Batchmakers">> >>,
    <<"7514", <<"51-3092.00", "Food Batchmakers">> >>,
    <<"7515", <<"19-4013.00", "Food Science Technicians">> >>,
    <<"7516", <<"51-3091.00", "Food and Tobacco Roasting, Baking, and Drying Machine Operators and Tenders">> >>,
    <<"7521", <<"51-7011.00", "Cabinetmakers and Bench Carpenters">> >>,
    <<"7522", <<"51-7011.00", "Cabinetmakers and Bench Carpenters">> >>,
    <<"7523", <<"51-7042.00", "Woodworking Machine Setters, Operators, and Tenders, Except Sawing">> >>,
    <<"7531", <<"51-6052.00", "Tailors, Dressmakers, and Custom Sewers">> >>,
    <<"7532", <<"51-6062.00", "Textile Cutting Machine Setters, Operators, and Tenders">> >>,
    <<"7533", <<"51-6031.00", "Sewing Machine Operators">> >>,
    <<"7534", <<"51-6093.00", "Upholsterers">> >>,
    <<"7535", <<"51-6099.00", "Textile, Apparel, and Furnishings Workers, All Other">> >>,
    <<"7536", <<"51-6041.00", "Shoe and Leather Workers and Repairers">> >>,
    <<"7541", <<"49-9092.00", "Commercial Divers">> >>,
    <<"7542", <<"47-5032.00", "Explosives Workers, Ordnance Handling Experts, and Blasters">> >>,
    <<"7543", <<"51-9061.00", "Inspectors, Testers, Sorters, Samplers, and Weighers">> >>,
    <<"7544", <<"37-2021.00", "Pest Control Workers">> >>,
    <<"7549", <<"51-9199.00", "Production Workers, All Other">> >>,
    <<"8111", <<"47-5041.00", "Continuous Mining Machine Operators">> >>,
    <<"8112", <<"51-9021.00", "Crushing, Grinding, and Polishing Machine Setters, Operators, and Tenders">> >>,
    <<"8113", <<"47-5012.00", "Rotary Drill Operators, Oil and Gas">> >>,
    <<"8114", <<"51-9023.00", "Mixing and Blending Machine Setters, Operators, and Tenders">> >>,
    <<"8121", <<"51-4051.00", "Metal-Refining Furnace Operators and Tenders">> >>,
    <<"8122", <<"51-4193.00", "Plating Machine Setters, Operators, and Tenders, Metal and Plastic">> >>,
    <<"8131", <<"51-9011.00", "Chemical Equipment Operators and Tenders">> >>,
    <<"8132", <<"51-9151.00", "Photographic Process Workers and Processing Machine Operators">> >>,
    <<"8141", <<"51-9041.00", "Extruding, Forming, Pressing, and Compacting Machine Setters, Operators, and Tenders">> >>,
    <<"8142", <<"51-4021.00", "Extruding and Drawing Machine Setters, Operators, and Tenders, Metal and Plastic">> >>,
    <<"8143", <<"51-9196.00", "Paper Goods Machine Setters, Operators, and Tenders">> >>,
    <<"8151", <<"51-6063.00", "Textile Knitting and Weaving Machine Setters, Operators, and Tenders">> >>,
    <<"8152", <<"51-6063.00", "Textile Knitting and Weaving Machine Setters, Operators, and Tenders">> >>,
    <<"8153", <<"51-6031.00", "Sewing Machine Operators">> >>,
    <<"8154", <<"51-6061.00", "Textile Bleaching and Dyeing Machine Operators and Tenders">> >>,
    <<"8155", <<"51-6099.00", "Textile, Apparel, and Furnishings Workers, All Other">> >>,
    <<"8156", <<"51-6042.00", "Shoe Machine Operators and Tenders">> >>,
    <<"8157", <<"51-6011.00", "Laundry and Dry-Cleaning Workers">> >>,
    <<"8159", <<"51-6099.00", "Textile, Apparel, and Furnishings Workers, All Other">> >>,
    <<"8160", <<"51-3092.00", "Food Batchmakers">> >>,
    <<"8171", <<"51-9196.00", "Paper Goods Machine Setters, Operators, and Tenders">> >>,
    <<"8172", <<"51-7041.00", "Sawing Machine Setters, Operators, and Tenders, Wood">> >>,
    <<"8181", <<"51-9195.04", "Glass Blowers, Molders, Benders, and Finishers">> >>,
    <<"8182", <<"51-8021.00", "Stationary Engineers and Boiler Operators">> >>,
    <<"8183", <<"51-9111.00", "Packaging and Filling Machine Operators and Tenders">> >>,
    <<"8189", <<"51-8099.00", "Plant and System Operators, All Other">> >>,
    <<"8211", <<"51-2031.00", "Engine and Other Machine Assemblers">> >>,
    <<"8212", <<"51-2022.00", "Electrical and Electronic Equipment Assemblers">> >>,
    <<"8219", <<"51-2099.00", "Assemblers and Fabricators, All Other">> >>,
    <<"8311", <<"53-4011.00", "Locomotive Engineers">> >>,
    <<"8312", <<"53-4022.00", "Railroad Brake, Signal, and Switch Operators and Locomotive Firers">> >>,
    <<"8321", <<"53-3054.00", "Taxi Drivers">> >>,
    <<"8322", <<"53-3054.00", "Taxi Drivers">> >>,
    <<"8331", <<"53-3052.00", "Bus Drivers, Transit and Intercity">> >>,
    <<"8332", <<"53-3032.00", "Heavy and Tractor-Trailer Truck Drivers">> >>,
    <<"8341", <<"45-2091.00", "Agricultural Equipment Operators">> >>,
    <<"8342", <<"47-2073.00", "Operating Engineers and Other Construction Equipment Operators">> >>,
    <<"8343", <<"53-7021.00", "Crane and Tower Operators">> >>,
    <<"8344", <<"53-7051.00", "Industrial Truck and Tractor Operators">> >>,
    <<"8350", <<"53-5011.00", "Sailors and Marine Oilers">> >>,
    <<"9111", <<"37-2012.00", "Maids and Housekeeping Cleaners">> >>,
    <<"9112", <<"37-2011.00", "Janitors and Cleaners, Except Maids and Housekeeping Cleaners">> >>,
    <<"9121", <<"51-6011.00", "Laundry and Dry-Cleaning Workers">> >>,
    <<"9122", <<"53-7061.00", "Cleaners of Vehicles and Equipment">> >>,
    <<"9123", <<"37-2011.00", "Janitors and Cleaners, Except Maids and Housekeeping Cleaners">> >>,
    <<"9129", <<"37-2019.00", "Building Cleaning Workers, All Other">> >>,
    <<"9211", <<"45-2092.00", "Farmworkers and Laborers, Crop, Nursery, and Greenhouse">> >>,
    <<"9212", <<"45-2093.00", "Farmworkers, Farm, Ranch, and Aquacultural Animals">> >>,
    <<"9213", <<"45-2092.00", "Farmworkers and Laborers, Crop, Nursery, and Greenhouse">> >>,
    <<"9214", <<"37-3011.00", "Landscaping and Groundskeeping Workers">> >>,
    <<"9215", <<"45-4011.00", "Forest and Conservation Workers">> >>,
    <<"9216", <<"45-3031.00", "Fishing and Hunting Workers">> >>,
    <<"9311", <<"47-5099.00", "Extraction Workers, All Other">> >>,
    <<"9312", <<"47-2061.00", "Construction Laborers">> >>,
    <<"9313", <<"47-2061.00", "Construction Laborers">> >>,
    <<"9321", <<"53-7064.00", "Packers and Packagers, Hand">> >>,
    <<"9329", <<"51-9199.00", "Production Workers, All Other">> >>,
    <<"9331", <<"53-7062.00", "Laborers and Freight, Stock, and Material Movers, Hand">> >>,
    <<"9332", <<"53-7065.00", "Stockers and Order Fillers">> >>,
    <<"9333", <<"53-7062.00", "Laborers and Freight, Stock, and Material Movers, Hand">> >>,
    <<"9334", <<"53-7065.00", "Stockers and Order Fillers">> >>,
    <<"9411", <<"35-2021.00", "Food Preparation Workers">> >>,
    <<"9412", <<"35-9021.00", "Dishwashers">> >>,
    <<"9510", <<"41-9091.00", "Door-to-Door Sales Workers, News and Street Vendors, and Related Workers">> >>,
    <<"9520", <<"41-9091.00", "Door-to-Door Sales Workers, News and Street Vendors, and Related Workers">> >>,
    <<"9611", <<"53-7081.00", "Refuse and Recyclable Material Collectors">> >>,
    <<"9612", <<"53-7062.04", "Recycling and Reclamation Workers">> >>,
    <<"9613", <<"37-2011.00", "Janitors and Cleaners, Except Maids and Housekeeping Cleaners">> >>,
    <<"9621", <<"39-6011.00", "Baggage Porters and Bellhops">> >>,
    <<"9622", <<"49-9071.00", "Maintenance and Repair Workers, General">> >>,
    <<"9623", <<"43-5041.00", "Meter Readers, Utilities">> >>,
    <<"9624", <<"53-7199.00", "Material Moving Workers, All Other">> >>,
    <<"9629", <<"39-6011.00", "Baggage Porters and Bellhops">> >>
  >>

\* The division-level fallback table, in insertion order.
DIVISION_DEFAULTS ==
  <<
    <<"1", <<"11-1021.00", "General and Operations Managers">> >>,
    <<"2", <<"19-4099.00", "Life, Physical, and Social Science Technicians, All Other">> >>,
    <<"3", <<"17-3029.00", "Engineering Technologists and Technicians, Except Drafters, All Other">> >>,
    <<"4", <<"43-9199.00", "Office and Administrative Support Workers, All Other">> >>,
    <<"5", <<"39-9099.00", "Personal Care and Service Workers, All Other">> >>,
    <<"6", <<"45-2099.00", "Agricultural Workers, All Other">> >>,
    <<"7", <<"51-9199.00", "Production Workers, All Other">> >>,
    <<"8", <<"51-8099.00", "Plant and System Operators, All Other">> >>,
    <<"9", <<"53-7199.00", "Material Moving Workers, All Other">> >>
  >>

\* ------------------------------------------------------------------------
\* String and dict primitives of Python used by the program
\* ------------------------------------------------------------------------

Min(a, b) == IF a <= b THEN a ELSE b

\* s[:n]: the slice is clamped to the length of s and never fails.
Slice(s, n) == SubSeq(s, 1, Min(n, Len(s)))

\* k in s, for strings: k occurs in s as a contiguous substring.
Contains(k, s) ==
  \E i \in 0..(Len(s) - Len(k)) : SubSeq(s, i + 1, i + Len(k)) = k

ASCII_UPPERCASE == "ABCDEFGHIJKLMNOPQRSTUVWXYZ"

ASCII_LOWERCASE == "abcdefghijklmnopqrstuvwxyz"

\* str.lower() on one character.
lower_char(c) ==
  IF \E i \in 1..Len(ASCII_UPPERCASE) : SubSeq(ASCII_UPPERCASE, i, i) = c
  THEN LET i == CHOOSE j \in 1..Len(ASCII_UPPERCASE) : SubSeq(ASCII_UPPERCASE, j, j) = c
       IN  SubSeq(ASCII_LOWERCASE, i, i)
  ELSE c

\* lower leaving every character as it is.
lower_identity(s) == s

RECURSIVE lower(_)
\* str.lower().
lower(s) == IF s = "" THEN "" ELSE lower_char(Head(s)) \o lower(Tail(s))

\* d.keys(): the keys of a dict in insertion order.
DictKeys(d) == [i \in 1..Len(d) |-> d[i][1]]

\* k in d, for a dict d.
DictHas(d, k) == \E i \in 1..Len(d) : d[i][1] = k

\* d[k], for a key k of d.
DictGet(d, k) == d[CHOOSE i \in 1..Len(d) : d[i][1] = k][2]

\* sorted(keys, key=len) without reverse=True: by increasing length.
sorted_by_len_forward(keys) ==
  LET n  == Len(keys)
      at == [i \in 1..n |->
               1 + Cardinality({j \in 1..n :
                                  \/ Len(keys[j]) < Len(keys[i])
                                  \/ Len(keys[j]) = Len(keys[i]) /\ j < i})]
  IN  [p \in 1..n |-> keys[CHOOSE i \in 1..n : at[i] = p]]

\* sorted(keys, key=len)[::-1]: by decreasing length, keys of equal length in
\* the reverse of their order in keys.
sorted_by_len_then_reversed(keys) ==
  LET n  == Len(keys)
      at == [i \in 1..n |->
               1 + Cardinality({j \in 1..n :
                                  \/ Len(keys[j]) > Len(keys[i])
                                  \/ Len(keys[j]) = Len(keys[i]) /\ j > i})]
  IN  [p \in 1..n |-> keys[CHOOSE i \in 1..n : at[i] = p]]

\* sorted(keys, key=len, reverse=True): by decreasing length; the sort is
\* stable, so keys of equal length keep their order in keys.  at[i] is the
\* position that keys[i] takes in the result.
sorted_by_len_reverse(keys) ==
  LET n  == Len(keys)
      at == [i \in 1..n |->
               1 + Cardinality({j \in 1..n :
                                  \/ Len(keys[j]) > Len(keys[i])
                                  \/ Len(keys[j]) = Len(keys[i]) /\ j < i})]
  IN  [p \in 1..n |-> keys[CHOOSE i \in 1..n : at[i] = p]]

\* ------------------------------------------------------------------------
\* find_semantic_match
\* ------------------------------------------------------------------------

\* The local sorted_keywords of find_semantic_match; it depends on the table
\* only, so it has the same value in every call.
sorted_keywords == sorted_by_len_reverse(DictKeys(SEMANTIC_KEYWORDS))

\* A call that returns the value v.
Returned(v) == [raised |-> "", value |-> v]

\* A call that ends in the exception e.
Raised(e) == [raised |-> e, value |-> <<>>]

\* Each tier is the sequence of what it returns: empty, or one result tuple.

\* keyword_tier taking the code from the first keyword that occurs in the
\* title and the title from the last.
keyword_tier_mixed(title_lower) ==
  LET hits == {i \in 1..Len(sorted_keywords) :
                 Contains(sorted_keywords[i], title_lower)}
  IN  IF hits = {} THEN <<>>
      ELSE LET keyword == sorted_keywords[CHOOSE i \in hits : \A j \in hits : i <= j]
               other   == sorted_keywords[CHOOSE i \in hits : \A j \in hits : i >= j]
           IN  << <<DictGet(SEMANTIC_KEYWORDS, keyword)[1],
                    DictGet(SEMANTIC_KEYWORDS, other)[2], 95>> >>

\* keyword_tier with "keyword == title_lower" in place of
\* "keyword in title_lower".
keyword_tier_whole_title(title_lower) ==
  LET hits == {i \in 1..Len(sorted_keywords) : sorted_keywords[i] = title_lower}
  IN  IF hits = {} THEN <<>>
      ELSE LET keyword == sorted_keywords[CHOOSE i \in hits : \A j \in hits : i <= j]
           IN  << <<DictGet(SEMANTIC_KEYWORDS, keyword)[1],
                    DictGet(SEMANTIC_KEYWORDS, keyword)[2], 95>> >>

\* Priority 1: the first keyword of sorted_keywords with
\* "keyword in title_lower".
keyword_tier(title_lower) ==
  LET hits == {i \in 1..Len(sorted_keywords) :
                 Contains(sorted_keywords[i], title_lower)}
  IN  IF hits = {} THEN <<>>
      ELSE LET keyword == sorted_keywords[CHOOSE i \in hits : \A j \in hits : i <= j]
           IN  << <<DictGet(SEMANTIC_KEYWORDS, keyword)[1],
                    DictGet(SEMANTIC_KEYWORDS, keyword)[2], 95>> >>

\* prefix_tier looking up nco_code[:3].
prefix_tier_first_three(code) ==
  LET prefix == Slice(code, 3)
  IN  IF DictHas(NCO_PREFIX_DEFAULTS, prefix)
      THEN << <<DictGet(NCO_PREFIX_DEFAULTS, prefix)[1],
                DictGet(NCO_PREFIX_DEFAULTS, prefix)[2], 80>> >>
      ELSE <<>>

\* Priority 2: the 4-character prefix of the code.
prefix_tier(code) ==
  LET prefix == Slice(code, 4)
  IN  IF DictHas(NCO_PREFIX_DEFAULTS, prefix)
      THEN << <<DictGet(NCO_PREFIX_DEFAULTS, prefix)[1],
                DictGet(NCO_PREFIX_DEFAULTS, prefix)[2], 80>> >>
      ELSE <<>>

\* prefix3_tier padding the 3-character prefix with '1'.
prefix3_tier_pad_one(code) ==
  LET prefix3 == Slice(code, 3) \o "1"
  IN  IF DictHas(NCO_PREFIX_DEFAULTS, prefix3)
      THEN << <<DictGet(NCO_PREFIX_DEFAULTS, prefix3)[1],
                DictGet(NCO_PREFIX_DEFAULTS, prefix3)[2], 75>> >>
      ELSE <<>>

\* prefix3_tier with a score outside the documented tiers.
prefix3_tier_score70(code) ==
  LET prefix3 == Slice(code, 3) \o "0"
  IN  IF DictHas(NCO_PREFIX_DEFAULTS, prefix3)
      THEN << <<DictGet(NCO_PREFIX_DEFAULTS, prefix3)[1],
                DictGet(NCO_PREFIX_DEFAULTS, prefix3)[2], 70>> >>
      ELSE <<>>

\* prefix3_tier falling back, when the group has no entry ending in '0', on
\* the first entry of the group.
prefix3_tier_any_of_group(code) ==
  LET prefix3 == Slice(code, 3) \o "0"
      group   == {i \in 1..Len(NCO_PREFIX_DEFAULTS) :
                    Slice(NCO_PREFIX_DEFAULTS[i][1], 3) = Slice(code, 3)}
  IN  IF DictHas(NCO_PREFIX_DEFAULTS, prefix3)
      THEN << <<DictGet(NCO_PREFIX_DEFAULTS, prefix3)[1],
                DictGet(NCO_PREFIX_DEFAULTS, prefix3)[2], 75>> >>
      ELSE IF group # {}
      THEN LET first == CHOOSE i \in group : \A j \in group : i <= j
           IN  << <<NCO_PREFIX_DEFAULTS[first][2][1],
                    NCO_PREFIX_DEFAULTS[first][2][2], 75>> >>
      ELSE <<>>

\* Priority 3: the 3-character prefix of the code with a trailing zero.
prefix3_tier(code) ==
  LET prefix3 == Slice(code, 3) \o "0"
  IN  IF DictHas(NCO_PREFIX_DEFAULTS, prefix3)
      THEN << <<DictGet(NCO_PREFIX_DEFAULTS, prefix3)[1],
                DictGet(NCO_PREFIX_DEFAULTS, prefix3)[2], 75>> >>
      ELSE <<>>

\* division_tier taking nco_code[:2] for the division.
division_tier_two_chars(code) ==
  LET division == Slice(code, 2)
  IN  IF DictHas(DIVISION_DEFAULTS, division)
      THEN << <<DictGet(DIVISION_DEFAULTS, division)[1],
                DictGet(DIVISION_DEFAULTS, division)[2], 60>> >>
      ELSE <<>>

\* Priority 4: the division, code[0]; the caller has checked that the code
\* is not empty.
division_tier(code) ==
  LET division == SubSeq(code, 1, 1)
  IN  IF DictHas(DIVISION_DEFAULTS, division)
      THEN << <<DictGet(DIVISION_DEFAULTS, division)[1],
                DictGet(DIVISION_DEFAULTS, division)[2], 60>> >>
      ELSE <<>>

\* find_semantic_match trying the 4-character prefix before the keywords.
find_semantic_match_prefix_first(title_arg, code) ==
  LET title_lower == lower(title_arg)
  IN  IF prefix_tier(code) # <<>> THEN Returned(prefix_tier(code)[1])
      ELSE IF keyword_tier(title_lower) # <<>> THEN Returned(keyword_tier(title_lower)[1])
      ELSE IF prefix3_tier(code) # <<>> THEN Returned(prefix3_tier(code)[1])
      ELSE IF code = "" THEN Raised("IndexError")
      ELSE IF division_tier(code) # <<>> THEN Returned(division_tier(code)[1])
      ELSE Returned(<<"", "", 0>>)

\* find_semantic_match putting a guessed code on the unresolved outcome.
find_semantic_match_guess(title_arg, code) ==
  LET title_lower == lower(title_arg)
  IN  IF keyword_tier(title_lower) # <<>> THEN Returned(keyword_tier(title_lower)[1])
      ELSE IF prefix_tier(code) # <<>> THEN Returned(prefix_tier(code)[1])
      ELSE IF prefix3_tier(code) # <<>> THEN Returned(prefix3_tier(code)[1])
      ELSE IF code = "" THEN Raised("IndexError")
      ELSE IF division_tier(code) # <<>> THEN Returned(division_tier(code)[1])
      ELSE Returned(<<"53-7199.00", "Material Moving Workers, All Other", 0>>)

\* find_semantic_match taking the division with nco_code[:1], which is ''
\* for the empty code and raises nothing.
find_semantic_match_slice_division(title_arg, code) ==
  LET title_lower == lower(title_arg)
  IN  IF keyword_tier(title_lower) # <<>> THEN Returned(keyword_tier(title_lower)[1])
      ELSE IF prefix_tier(code) # <<>> THEN Returned(prefix_tier(code)[1])
      ELSE IF prefix3_tier(code) # <<>> THEN Returned(prefix3_tier(code)[1])
      ELSE IF code = "" THEN Returned(<<"", "", 0>>)
      ELSE IF division_tier(code) # <<>> THEN Returned(division_tier(code)[1])
      ELSE Returned(<<"", "", 0>>)

\* The first tier that applies wins; nco_code[0] of an empty code raises
\* IndexError; when no tier applies the result is ('', '', 0).
find_semantic_match(title_arg, code) ==
  LET title_lower == lower(title_arg)
  IN  IF keyword_tier(title_lower) # <<>> THEN Returned(keyword_tier(title_lower)[1])
      ELSE IF prefix_tier(code) # <<>> THEN Returned(prefix_tier(code)[1])
      ELSE IF prefix3_tier(code) # <<>> THEN Returned(prefix3_tier(code)[1])
      ELSE IF code = "" THEN Raised("IndexError")
      ELSE IF division_tier(code) # <<>> THEN Returned(division_tier(code)[1])
      ELSE Returned(<<"", "", 0>>)

\* ------------------------------------------------------------------------
\* Text primitives of the extractors
\* ------------------------------------------------------------------------

\* The characters that \s matches and str.strip() removes.
IsSpace(c) == c \in {" ", "\t", "\n", "\r", "\f"}

\* The characters that \d matches.
IsDigit(c) == c \in {"0", "1", "2", "3", "4", "5", "6", "7", "8", "9"}

AllSpace(s) == \A i \in 1..Len(s) : IsSpace(SubSeq(s, i, i))

AllDigits(s) == \A i \in 1..Len(s) : IsDigit(SubSeq(s, i, i))

\* s.startswith(p).
StartsWith(s, p) == Len(p) <= Len(s) /\ SubSeq(s, 1, Len(p)) = p

\* s.endswith(p).
EndsWith(s, p) == Len(p) <= Len(s) /\ SubSeq(s, Len(s) - Len(p) + 1, Len(s)) = p

\* s.strip(): s without its leading and trailing whitespace.
strip(s) ==
  LET keep == {i \in 1..Len(s) : ~IsSpace(SubSeq(s, i, i))}
  IN  IF keep = {} THEN ""
      ELSE SubSeq(s, CHOOSE i \in keep : \A j \in keep : i <= j,
                     CHOOSE i \in keep : \A j \in keep : j <= i)

RECURSIVE join_lines(_)
\* "\n".join(texts).
join_lines(texts) ==
  IF texts = <<>> THEN ""
  ELSE IF Len(texts) = 1 THEN texts[1]
  ELSE texts[1] \o "\n" \o join_lines(Tail(texts))

\* text.split('\n'): the pieces between the newlines, one more than there
\* are newlines; cut[k] is the position of the k-th newline.
split_lines(text) ==
  LET nl  == {i \in 1..Len(text) : SubSeq(text, i, i) = "\n"}
      m   == Cardinality(nl)
      cut == [k \in 0..(m + 1) |->
                IF k = 0 THEN 0
                ELSE IF k = m + 1 THEN Len(text) + 1
                ELSE CHOOSE i \in nl : Cardinality({j \in nl : j <= i}) = k]
  IN  [k \in 1..(m + 1) |-> SubSeq(text, cut[k - 1] + 1, cut[k] - 1)]

\* The text of the document as the extractors build it: the pages whose
\* extract_text() is not empty (or None), joined by newlines and split again.
document_lines(pdf) ==
  split_lines(join_lines(SelectSeq(pdf, LAMBDA text : text # "")))

\* \d{4}\.\d{4} matching the whole of s.
IsNco2015Code(s) ==
  /\ Len(s) = 9
  /\ AllDigits(SubSeq(s, 1, 4))
  /\ SubSeq(s, 5, 5) = "."
  /\ AllDigits(SubSeq(s, 6, 9))

\* \d{4}\.\d{2} matching the whole of s.
IsNco2004Code(s) ==
  /\ Len(s) = 7
  /\ AllDigits(SubSeq(s, 1, 4))
  /\ SubSeq(s, 5, 5) = "."
  /\ AllDigits(SubSeq(s, 6, 7))

\* \d{2}-\d{4}\.\d{2} matching the whole of s.
IsOnetCode(s) ==
  /\ Len(s) = 10
  /\ AllDigits(SubSeq(s, 1, 2))
  /\ SubSeq(s, 3, 3) = "-"
  /\ AllDigits(SubSeq(s, 4, 7))
  /\ SubSeq(s, 8, 8) = "."
  /\ AllDigits(SubSeq(s, 9, 10))

\* ------------------------------------------------------------------------
\* extract_nco_records
\* ------------------------------------------------------------------------

\* nco_skip without the test for the running header 'VOLUME'.
nco_skip_without_volume(line) ==
  \/ line = ""
  \/ Contains("National Classification of Occupations", line)
  \/ Contains("NCO 2015", line) /\ Contains("NCO 2004", line)
  \/ StartsWith(line, "Division")
  \/ StartsWith(line, "Sub-")
  \/ StartsWith(line, "Group")
  \/ StartsWith(line, "Family")

\* The header and metadata lines that are skipped before any pattern is tried.
nco_skip(line) ==
  \/ line = ""
  \/ Contains("National Classification of Occupations", line)
  \/ Contains("VOLUME", line)
  \/ Contains("NCO 2015", line) /\ Contains("NCO 2004", line)
  \/ StartsWith(line, "Division")
  \/ StartsWith(line, "Sub-")
  \/ StartsWith(line, "Group")
  \/ StartsWith(line, "Family")

\* re.match(r'^(\d{4}\.\d{4})\s+(.+?)\s+(\d{4}\.\d{2})$', line): the groups
\* of the match, or <<>>.  A match splits the line into the code, a
\* whitespace characters, b title characters, whitespace and the last 7
\* characters; the engine takes the first \s+ greedy (largest a first) and
\* the title lazy (smallest b first).
nco_match(line) ==
  LET n     == Len(line)
      cands == {c \in (1..n) \X (1..n) :
                  /\ 9 + c[1] + c[2] + 1 + 7 <= n
                  /\ AllSpace(SubSeq(line, 10, 9 + c[1]))
                  /\ ~Contains("\n", SubSeq(line, 10 + c[1], 9 + c[1] + c[2]))
                  /\ AllSpace(SubSeq(line, 10 + c[1] + c[2], n - 7))}
  IN  IF /\ n >= 9 + 1 + 1 + 1 + 7
         /\ IsNco2015Code(SubSeq(line, 1, 9))
         /\ IsNco2004Code(SubSeq(line, n - 6, n))
         /\ cands # {}
      THEN LET c == CHOOSE x \in cands : \A y \in cands :
                      \/ x[1] > y[1]
                      \/ x[1] = y[1] /\ x[2] <= y[2]
           IN  <<SubSeq(line, 1, 9),
                 SubSeq(line, 10 + c[1], 9 + c[1] + c[2]),
                 SubSeq(line, n - 6, n)>>
      ELSE <<>>

\* re.match(r'^(\d{4}\.\d{4})\s+(.+)$', line): the groups, or <<>>.  The
\* \s+ is greedy and the title takes the rest, at least one character.
nco_match2(line) ==
  LET n     == Len(line)
      cands == {a \in 1..n :
                  /\ 9 + a + 1 <= n
                  /\ AllSpace(SubSeq(line, 10, 9 + a))
                  /\ ~Contains("\n", SubSeq(line, 10 + a, n))}
  IN  IF n >= 9 + 1 + 1 /\ IsNco2015Code(SubSeq(line, 1, 9)) /\ cands # {}
      THEN LET a == CHOOSE x \in cands : \A y \in cands : x >= y
           IN  <<SubSeq(line, 1, 9), SubSeq(line, 10 + a, n)>>
      ELSE <<>>

\* re.search(r'\d{4}\.\d{2}$', line): the line ends in a NNNN.NN pattern.
nco2004_at_end(line) ==
  Len(line) >= 7 /\ IsNco2004Code(SubSeq(line, Len(line) - 6, Len(line)))

\* nco_line_records trying only the pattern without a secondary code.
nco_line_records_second_pattern_only(raw) ==
  LET line   == strip(raw)
      match2 == nco_match2(line)
  IN  IF nco_skip(line) THEN <<>>
      ELSE IF match2 # <<>> /\ ~nco2004_at_end(line)
      THEN << [nco2015 |-> match2[1], title |-> strip(match2[2]), nco2004 |-> ""] >>
      ELSE <<>>

\* The body of the loop over the lines: the records one line adds, none or one.
nco_line_records(raw) ==
  LET line   == strip(raw)
      match  == nco_match(line)
      match2 == nco_match2(line)
  IN  IF nco_skip(line) THEN <<>>
      ELSE IF match # <<>>
      THEN << [nco2015 |-> match[1], title |-> strip(match[2]), nco2004 |-> match[3]] >>
      ELSE IF match2 # <<>> /\ ~nco2004_at_end(line)
      THEN << [nco2015 |-> match2[1], title |-> strip(match2[2]), nco2004 |-> ""] >>
      ELSE <<>>

RECURSIVE nco_records_of(_)
\* nco_records_of leaving the loop at the first line that gives no record.
nco_records_of_until_no_record(lines) ==
  IF lines = <<>> THEN <<>>
  ELSE IF nco_line_records(Head(lines)) = <<>> THEN <<>>
  ELSE nco_line_records(Head(lines)) \o nco_records_of(Tail(lines))

\* nco_records_of keeping the first of equal records only.
nco_records_of_without_duplicates(lines) ==
  IF lines = <<>> THEN <<>>
  ELSE LET first == nco_line_records(Head(lines))
           rest  == nco_records_of(Tail(lines))
       IN  first \o SelectSeq(rest, LAMBDA r : first = <<>> \/ r # first[1])

\* The loop over the lines, appending to records in line order.
nco_records_of(lines) ==
  IF lines = <<>> THEN <<>>
  ELSE nco_line_records(Head(lines)) \o nco_records_of(Tail(lines))

\* pdf is the sequence of the texts page.extract_text() gives, "" for a page
\* without text.
extract_nco_records(pdf) == nco_records_of(document_lines(pdf))

\* ------------------------------------------------------------------------
\* extract_onet_records
\* ------------------------------------------------------------------------

\* The header and navigation lines that are skipped.
onet_skip(line) ==
  \/ line = ""
  \/ Contains("Job Zone", line) /\ Contains("Code", line) /\ Contains("Occupation", line)
  \/ Contains("See All Occupations", line)
  \/ Contains("onetonline.org", line)
  \/ Contains("Data-level", line)
  \/ Contains("Show Job Zones", line)
  \/ Contains("Show occupations", line)
  \/ Contains("Save Table", line)
  \/ Contains("Find in list", line)

\* The lengths that the leading token of kind k can take at the start of the
\* line: the literal "Not available", one digit, or nothing.
onet_lead(line, k) ==
  IF k = "Not available" THEN
     IF StartsWith(line, "Not available") THEN {Len("Not available")} ELSE {}
  ELSE IF k = "digit" THEN
     IF Len(line) >= 1 /\ IsDigit(SubSeq(line, 1, 1)) THEN {1} ELSE {}
  ELSE {0}

\* (?:\s+Bright Outlook)?$ at the rest of the line: the annotation, or nothing.
onet_rest(rest) ==
  \/ rest = ""
  \/ /\ EndsWith(rest, "Bright Outlook")
     /\ Len(rest) > Len("Bright Outlook")
     /\ AllSpace(SubSeq(rest, 1, Len(rest) - Len("Bright Outlook")))

\* The three patterns of extract_onet_records are
\*   ^<lead><gap>(\d{2}-\d{4}\.\d{2})\s+(.+?)(?:\s+Bright Outlook)?$
\* with the alternatives of <lead> in the order leads tries them, and <gap>
\* \s* (min_gap = 0) or \s+ (min_gap = 1).  A match is <<l, g, a, b>>: the
\* index of the lead in leads, g gap characters, a whitespace characters
\* after the code and b title characters.  The engine prefers the earlier
\* lead, the longer gap, the longer \s+ and the shorter title.  The result
\* is <<code, title>>, or <<>>.
onet_pattern(line, leads, min_gap) ==
  LET n      == Len(line)
      starts == {s \in (1..Len(leads)) \X (min_gap..n) :
                   \E ll \in onet_lead(line, leads[s[1]]) :
                     /\ ll + s[2] + 10 + 1 + 1 <= n
                     /\ AllSpace(SubSeq(line, ll + 1, ll + s[2]))
                     /\ IsOnetCode(SubSeq(line, ll + s[2] + 1, ll + s[2] + 10))}
      at(s)  == (CHOOSE ll \in onet_lead(line, leads[s[1]]) : TRUE) + s[2] + 10
      cands  == {c \in starts \X (1..n) \X (1..n) :
                   /\ at(c[1]) + c[2] + c[3] <= n
                   /\ AllSpace(SubSeq(line, at(c[1]) + 1, at(c[1]) + c[2]))
                   /\ ~Contains("\n", SubSeq(line, at(c[1]) + c[2] + 1,
                                             at(c[1]) + c[2] + c[3]))
                   /\ onet_rest(SubSeq(line, at(c[1]) + c[2] + c[3] + 1, n))}
      before(x, y) ==
        \/ x[1][1] < y[1][1]
        \/ x[1][1] = y[1][1] /\ x[1][2] > y[1][2]
        \/ x[1] = y[1] /\ x[2] > y[2]
        \/ x[1] = y[1] /\ x[2] = y[2] /\ x[3] <= y[3]
  IN  IF cands = {} THEN <<>>
      ELSE LET c == CHOOSE x \in cands : \A y \in cands : before(x, y)
           IN  <<SubSeq(line, at(c[1]) - 9, at(c[1])),
                 SubSeq(line, at(c[1]) + c[2] + 1, at(c[1]) + c[2] + c[3])>>

\* The body of the loop over the lines: the records one line adds, none or
\* one; the first of the three patterns that matches gives the record.
onet_line_records(raw) ==
  LET line   == strip(raw)
      match  == onet_pattern(line, <<"Not available", "digit", "">>, 0)
      match2 == onet_pattern(line, <<"digit">>, 1)
      match3 == onet_pattern(line, <<"Not available">>, 1)
  IN  IF onet_skip(line) THEN <<>>
      ELSE IF match # <<>>
      THEN << [onet_code |-> match[1], title |-> strip(match[2])] >>
      ELSE IF match2 # <<>>
      THEN << [onet_code |-> match2[1], title |-> strip(match2[2])] >>
      ELSE IF match3 # <<>>
      THEN << [onet_code |-> match3[1], title |-> strip(match3[2])] >>
      ELSE <<>>

RECURSIVE onet_records_of(_)
\* The loop over the lines, appending to records in line order.
onet_records_of(lines) ==
  IF lines = <<>> THEN <<>>
  ELSE onet_line_records(Head(lines)) \o onet_records_of(Tail(lines))

extract_onet_records(pdf) == onet_records_of(document_lines(pdf))

\* ------------------------------------------------------------------------
\* Inputs of the direct calls of the matcher
\* ------------------------------------------------------------------------

\* Phrases that titles are made of: with a keyword, with nested keywords
\* ("principal" inside "principal, college"), with keywords of equal length
\* ("lawyer", "doctor"), with a keyword inside a longer word, in upper case,
\* and with no keyword at all.
TitleParts ==
  { "principal, college of arts", "Principal", "Senior Advocate", "Lawyer",
    "Doctor", "Doctor and Lawyer", "DEPUTY LEGISLATOR", "Injustice",
    "Unrecognized Title" }

RECURSIVE TitlesOf(_)
\* The titles made of exactly n phrases separated by one space.
TitlesOf(n) ==
  IF n = 0 THEN {""}
  ELSE IF n = 1 THEN TitleParts
  ELSE {t \o " " \o p : t \in TitlesOf(n - 1), p \in TitleParts}

Titles == UNION {TitlesOf(n) : n \in 0..MaxTitleParts}

\* Primary codes: of the extracted form NNNN.NNNN with the 4-digit prefix in
\* the prefix table (1111), only the 3-digit group head in it (1121 -> 1120),
\* neither (1115, d999 for every division d), the absent head of a group
\* that has entries (3110), no division entry (0999), and codes shorter than
\* the slices taken of them, down to the empty code.
NcoCodes ==
  { "1111.0001", "1121.0001", "1115.0001", "2310.0100", "3110.0001",
    "1999.0001", "2999.0001", "3999.0001", "4999.0001", "5999.0001",
    "6999.0001", "7999.0001", "8999.0001", "9999.0001", "0999.0001",
    "112", "1", "0", "" }

\* ------------------------------------------------------------------------
\* create_crosswalk and main
\* ------------------------------------------------------------------------

\* mapping_entry giving an unmatched record the default of division 9
\* instead of the empty target.
mapping_entry_guess(nco, matched) ==
  [NCO_2015_Code  |-> nco.nco2015,
   NCO_2004_Code  |-> nco.nco2004,
   NCO_Job_Title  |-> nco.title,
   ONET_Code      |-> IF matched[3] = 0 THEN "53-7199.00" ELSE matched[1],
   ONET_Job_Title |-> IF matched[3] = 0 THEN "Material Moving Workers, All Other"
                      ELSE matched[2],
   Match_Score    |-> matched[3]]

\* The entry that the loop of create_crosswalk appends for the record nco
\* and the tuple matched that find_semantic_match returned for it.
mapping_entry(nco, matched) ==
  [NCO_2015_Code  |-> nco.nco2015,
   NCO_2004_Code  |-> nco.nco2004,
   NCO_Job_Title  |-> nco.title,
   ONET_Code      |-> matched[1],
   ONET_Job_Title |-> matched[2],
   Match_Score    |-> matched[3]]

\* crosswalk_stats taking total_records from the lines of the output file,
\* the header line among them.
crosswalk_stats_counting_header(rows) ==
  LET score(i) == rows[i].Match_Score
      n        == Len(rows)
  IN  [total_records    |-> n + 1,
       semantic_matches |-> Cardinality({i \in 1..n : score(i) >= 90}),
       prefix_matches   |-> Cardinality({i \in 1..n : 80 <= score(i) /\ score(i) < 90}),
       division_matches |-> Cardinality({i \in 1..n : 60 <= score(i) /\ score(i) < 80}),
       low_matches      |-> Cardinality({i \in 1..n : 0 < score(i) /\ score(i) < 60}),
       no_matches       |-> Cardinality({i \in 1..n : score(i) = 0}),
       nco2004_coverage |-> Cardinality({i \in 1..n : rows[i].NCO_2004_Code # ""})]

\* crosswalk_stats with the division range ending below 75 instead of 80.
crosswalk_stats_below75(rows) ==
  LET score(i) == rows[i].Match_Score
      n        == Len(rows)
  IN  [total_records    |-> n,
       semantic_matches |-> Cardinality({i \in 1..n : score(i) >= 90}),
       prefix_matches   |-> Cardinality({i \in 1..n : 80 <= score(i) /\ score(i) < 90}),
       division_matches |-> Cardinality({i \in 1..n : 60 <= score(i) /\ score(i) < 75}),
       low_matches      |-> Cardinality({i \in 1..n : 0 < score(i) /\ score(i) < 60}),
       no_matches       |-> Cardinality({i \in 1..n : score(i) = 0}),
       nco2004_coverage |-> Cardinality({i \in 1..n : rows[i].NCO_2004_Code # ""})]

\* The statistics computed from the mapping; each sum(1 for m in mapping if
\* ...) counts the entries that pass its test.
crosswalk_stats(rows) ==
  LET score(i) == rows[i].Match_Score
      n        == Len(rows)
  IN  [total_records    |-> n,
       semantic_matches |-> Cardinality({i \in 1..n : score(i) >= 90}),
       prefix_matches   |-> Cardinality({i \in 1..n : 80 <= score(i) /\ score(i) < 90}),
       division_matches |-> Cardinality({i \in 1..n : 60 <= score(i) /\ score(i) < 80}),
       low_matches      |-> Cardinality({i \in 1..n : 0 < score(i) /\ score(i) < 60}),
       no_matches       |-> Cardinality({i \in 1..n : score(i) = 0}),
       nco2004_coverage |-> Cardinality({i \in 1..n : rows[i].NCO_2004_Code # ""})]

RECURSIVE str_int(_)
\* str(n) for an integer n >= 0, as the csv writer formats Match_Score.
str_int(n) ==
  IF n < 10 THEN SubSeq("0123456789", n + 1, n + 1)
  ELSE str_int(n \div 10) \o SubSeq("0123456789", (n % 10) + 1, (n % 10) + 1)

\* The fieldnames of the csv.DictWriter, the header row of the file.
CSV_FIELDNAMES ==
  <<"NCO_2015_Code", "NCO_2004_Code", "NCO_Job_Title",
    "ONET_Code", "ONET_Job_Title", "Match_Score">>

\* The row that writerows writes for the entry m.
csv_row(m) ==
  <<m.NCO_2015_Code, m.NCO_2004_Code, m.NCO_Job_Title,
    m.ONET_Code, m.ONET_Job_Title, str_int(m.Match_Score)>>

\* The rows of the output file after writeheader() and writerows(mapping).
csv_file(rows) == <<CSV_FIELDNAMES>> \o [i \in 1..Len(rows) |-> csv_row(rows[i])]

\* ------------------------------------------------------------------------
\* Input documents of a run
\* ------------------------------------------------------------------------

\* Lines of the NCO document: records that resolve in each tier (keyword 95,
\* 4-digit prefix 80, 3-digit prefix 75, division 60, unmatched 0), with and
\* without an NCO 2004 code.
NcoSampleLines ==
  { "1111.0001 Senior Advocate 1111.01",
    "1111.0002 Unrecognized Title",
    "1121.0001 Unrecognized Title 1121.01",
    "9999.0001 Unrecognized Title",
    "0999.0001 Unrecognized Title",
    "see footnote 12" }

\* The sequences of at most n elements of S.
SeqsUpTo(S, n) == UNION {[1..k -> S] : k \in 0..n}

RECURSIVE SumLens(_)
SumLens(ss) == IF ss = <<>> THEN 0 ELSE Len(Head(ss)) + SumLens(Tail(ss))

\* The NCO documents of at most max_pages pages holding at most max_lines
\* lines together; a page without lines is a page without text.
NcoDocs(max_pages, max_lines) ==
  { [p \in DOMAIN d |-> join_lines(d[p])] :
      d \in {x \in SeqsUpTo(SeqsUpTo(NcoSampleLines, max_lines), max_pages) :
               SumLens(x) <= max_lines} }

\* The O*NET document of a run: a page with a line of prose and a record
\* line, a page without text, and a page with a record line that has a
\* leading digit and the trailing annotation.
OnetDocs ==
  { <<"sorted by code\n23-1011.00 Lawyers",
      "",
      "1 51-3011.00 Bakers Bright Outlook">> }

\* Tokens that the lines handed to extract_nco_records alone are made of:
\* primary and secondary codes, titles, the texts of the skipped lines, and
\* the empty token, which doubles a space or puts one at an end of the line,
\* and a token of one space, which stands where a title would.
\* ("-" stands for the dash of the heading "Division 1 - Managers", a
\* character that is neither a digit nor whitespace.)
LineTokens ==
  { "1111.0001", "1111.0002", "1111.01", "Chief Legislator",
    "Deputy Legislator", "1 - Managers", "VOLUME",
    "National Classification of Occupations", "NCO 2015", "NCO 2004",
    "Division", "Sub-", "Group", "Family", "", " " }

RECURSIVE join_tokens(_)
\* The tokens separated by one space.
join_tokens(tokens) ==
  IF tokens = <<>> THEN ""
  ELSE IF Len(tokens) = 1 THEN tokens[1]
  ELSE tokens[1] \o " " \o join_tokens(Tail(tokens))

\* The lines of at most max_tokens tokens.
Lines(max_tokens) == {join_tokens(ts) : ts \in SeqsUpTo(LineTokens, max_tokens)}

\* ------------------------------------------------------------------------
\* State
\* ------------------------------------------------------------------------

VARIABLES
  pc,            \* where the run of main is
  nco_pdf,       \* the NCO document: the text of each page
  onet_pdf,      \* the O*NET document: the text of each page
  nco_records,   \* create_crosswalk's nco_records
  onet_records,  \* create_crosswalk's onet_records
  mapping,       \* create_crosswalk's mapping
  output_file,   \* the rows of the file at output_path; <<>> while not written
  stats,         \* what create_crosswalk returned to main
  exception,     \* the exception that ended the run, "" if none
  title,         \* the title argument of a direct call of find_semantic_match
  nco_code,      \* its nco_code argument
  match_result,  \* what the direct call produced
  table_writes,  \* the assignments made to the rule tables since load, each
                 \* <<table, key, value>>, in order
  workers,       \* per thread: where its call of find_semantic_match is, the
                 \* arguments and the locals of the call
  results        \* the calls that returned to their callers: arguments, result

vars ==
  <<pc, nco_pdf, onet_pdf, nco_records, onet_records, mapping, output_file,
    stats, exception, title, nco_code, match_result, table_writes, workers,
    results>>

run_vars ==
  <<pc, nco_pdf, onet_pdf, nco_records, onet_records, mapping, output_file,
    stats, exception>>

call_vars == <<title, nco_code, match_result>>

worker_vars == <<workers, results>>

Workers == 1..MaxWorkers

\* A thread that is not in a call.
Idle ==
  [pc |-> "idle", title |-> "", nco_code |-> "", title_lower |-> "",
   result |-> [raised |-> "pending", value |-> <<>>]]

\* d[k] = v, for a dict d: the value is replaced, or the key added at the end.
DictSet(d, k, v) ==
  IF DictHas(d, k)
  THEN [i \in 1..Len(d) |-> IF d[i][1] = k THEN <<k, v>> ELSE d[i]]
  ELSE Append(d, <<k, v>>)

RECURSIVE Written(_, _, _)
\* The dict of the name table: d as loaded, with the writes made to it.
Written(d, table, writes) ==
  IF writes = <<>> THEN d
  ELSE Written(IF Head(writes)[1] = table
               THEN DictSet(d, Head(writes)[2], Head(writes)[3]) ELSE d,
               table, Tail(writes))

\* What the three module-level tables hold now.
rule_base ==
  [SEMANTIC_KEYWORDS   |-> Written(SEMANTIC_KEYWORDS, "SEMANTIC_KEYWORDS", table_writes),
   NCO_PREFIX_DEFAULTS |-> Written(NCO_PREFIX_DEFAULTS, "NCO_PREFIX_DEFAULTS", table_writes),
   DIVISION_DEFAULTS   |-> Written(DIVISION_DEFAULTS, "DIVISION_DEFAULTS", table_writes)]

\* A call that has not been made yet.
Pending == [raised |-> "pending", value |-> <<>>]

\* ------------------------------------------------------------------------
\* A run of main: create_crosswalk, then print_validation_report
\* ------------------------------------------------------------------------

Init ==
  /\ pc = "extract_nco"
  /\ nco_pdf \in NcoDocs(MaxPages, MaxDocLines)
  /\ onet_pdf \in OnetDocs
  /\ nco_records = <<>>
  /\ onet_records = <<>>
  /\ mapping = <<>>
  /\ output_file = <<>>
  /\ stats = Pending
  /\ exception = ""
  /\ title = ""
  /\ nco_code = ""
  /\ match_result = Pending
  /\ table_writes = <<>>
  /\ workers = [w \in Workers |-> Idle]
  /\ results = {}

\* nco_records = extract_nco_records(nco_pdf)
ExtractNco ==
  /\ pc = "extract_nco"
  /\ nco_records' = extract_nco_records(nco_pdf)
  /\ pc' = "extract_onet"
  /\ UNCHANGED <<nco_pdf, onet_pdf, onet_records, mapping, output_file, stats,
                 exception, call_vars, worker_vars, table_writes>>

\* onet_records = extract_onet_records(onet_pdf); mapping = []
ExtractOnet ==
  /\ pc = "extract_onet"
  /\ onet_records' = extract_onet_records(onet_pdf)
  /\ mapping' = <<>>
  /\ pc' = "match"
  /\ UNCHANGED <<nco_pdf, onet_pdf, nco_records, output_file, stats,
                 exception, call_vars, worker_vars, table_writes>>

\* MatchRecord with a matcher that stores what the coarse prefix found under
\* the 4-character prefix of the code, to find it at once the next time.
MatchRecord_caching ==
  /\ pc = "match"
  /\ Len(mapping) < Len(nco_records)
  /\ LET nco    == nco_records[Len(mapping) + 1]
         result == find_semantic_match(nco.title, nco.nco2015)
     IN  IF result.raised = ""
         THEN /\ mapping' = Append(mapping, mapping_entry(nco, result.value))
              /\ table_writes' =
                   IF result.value[3] = 75
                   THEN Append(table_writes,
                               <<"NCO_PREFIX_DEFAULTS", Slice(nco.nco2015, 4),
                                 <<result.value[1], result.value[2]>> >>)
                   ELSE table_writes
              /\ UNCHANGED <<pc, exception>>
         ELSE /\ pc' = "crashed"
              /\ exception' = result.raised
              /\ UNCHANGED <<mapping, table_writes>>
  /\ UNCHANGED <<nco_pdf, onet_pdf, nco_records, onet_records, output_file,
                 stats, call_vars, worker_vars>>

\* MatchRecord with the file rewritten after every record instead of once
\* after the loop.
MatchRecord_writing_rows ==
  /\ pc = "match"
  /\ Len(mapping) < Len(nco_records)
  /\ LET nco    == nco_records[Len(mapping) + 1]
         result == find_semantic_match(nco.title, nco.nco2015)
     IN  IF result.raised = ""
         THEN /\ mapping' = Append(mapping, mapping_entry(nco, result.value))
              /\ output_file' = csv_file(mapping')
              /\ UNCHANGED <<pc, exception>>
         ELSE /\ pc' = "crashed"
              /\ exception' = result.raised
              /\ UNCHANGED <<mapping, output_file>>
  /\ UNCHANGED <<nco_pdf, onet_pdf, nco_records, onet_records,
                 stats, call_vars, worker_vars, table_writes>>

\* MatchRecord with the target title looked up in onet_records: when a
\* target record carries the code that the matcher returned, the entry takes
\* the title of that record.
MatchRecord_target_titles ==
  /\ pc = "match"
  /\ Len(mapping) < Len(nco_records)
  /\ LET nco    == nco_records[Len(mapping) + 1]
         result == find_semantic_match(nco.title, nco.nco2015)
         listed == {j \in 1..Len(onet_records) :
                      onet_records[j].onet_code = result.value[1]}
     IN  IF result.raised = ""
         THEN /\ mapping' =
                   Append(mapping,
                          mapping_entry(nco,
                            IF listed = {} THEN result.value
                            ELSE <<result.value[1],
                                   onet_records[CHOOSE j \in listed : TRUE].title,
                                   result.value[3]>>))
              /\ UNCHANGED <<pc, exception>>
         ELSE /\ pc' = "crashed"
              /\ exception' = result.raised
              /\ UNCHANGED mapping
  /\ UNCHANGED <<nco_pdf, onet_pdf, nco_records, onet_records, output_file,
                 stats, call_vars, worker_vars, table_writes>>

\* One iteration of "for i, nco in enumerate(nco_records)": the record at
\* index i = len(mapping) is matched and its entry appended.  An exception
\* of find_semantic_match ends the run.
MatchRecord ==
  /\ pc = "match"
  /\ Len(mapping) < Len(nco_records)
  /\ LET nco    == nco_records[Len(mapping) + 1]
         result == find_semantic_match(nco.title, nco.nco2015)
     IN  IF result.raised = ""
         THEN /\ mapping' = Append(mapping, mapping_entry(nco, result.value))
              /\ UNCHANGED <<pc, exception>>
         ELSE /\ pc' = "crashed"
              /\ exception' = result.raised
              /\ UNCHANGED mapping
  /\ UNCHANGED <<nco_pdf, onet_pdf, nco_records, onet_records, output_file,
                 stats, call_vars, worker_vars, table_writes>>

\* SaveCsv without writer.writerows(mapping).
SaveCsv_header_only ==
  /\ pc = "match"
  /\ Len(mapping) = Len(nco_records)
  /\ output_file' = <<CSV_FIELDNAMES>>
  /\ pc' = "stats"
  /\ UNCHANGED <<nco_pdf, onet_pdf, nco_records, onet_records, mapping, stats,
                 exception, call_vars, worker_vars, table_writes>>

\* The loop is over; the header and the mapping are written to output_path.
SaveCsv ==
  /\ pc = "match"
  /\ Len(mapping) = Len(nco_records)
  /\ output_file' = csv_file(mapping)
  /\ pc' = "stats"
  /\ UNCHANGED <<nco_pdf, onet_pdf, nco_records, onet_records, mapping, stats,
                 exception, call_vars, worker_vars, table_writes>>

\* The statistics are computed and returned to main.
ComputeStats ==
  /\ pc = "stats"
  /\ stats' = Returned(crosswalk_stats(mapping))
  /\ pc' = "report"
  /\ UNCHANGED <<nco_pdf, onet_pdf, nco_records, onet_records, mapping,
                 output_file, exception, call_vars, worker_vars, table_writes>>

\* print_validation_report(stats): every percentage divides by
\* stats['total_records'], which raises ZeroDivisionError when it is 0.
PrintReport ==
  /\ pc = "report"
  /\ IF stats.value.total_records = 0
     THEN pc' = "crashed" /\ exception' = "ZeroDivisionError"
     ELSE pc' = "done" /\ UNCHANGED exception
  /\ UNCHANGED <<nco_pdf, onet_pdf, nco_records, onet_records, mapping,
                 output_file, stats, call_vars, worker_vars, table_writes>>

Next ==
  \/ ExtractNco
  \/ ExtractOnet
  \/ MatchRecord
  \/ SaveCsv
  \/ ComputeStats
  \/ PrintReport

Spec == Init /\ [][Next]_vars

\* main is one sequential thread that runs to its end: a step that can be
\* taken is taken.  This is weak fairness of each step; for the two
\* extractions and for the loop the condition under which the step can be
\* taken is written out (such a step ends, or in the loop will end, that
\* condition, so the step cannot be possible for ever).
SpecFair ==
  /\ Init /\ [][Next]_vars
  /\ []<>(pc # "extract_nco")
  /\ []<>(pc # "extract_onet")
  /\ []<>~(pc = "match" /\ Len(mapping) < Len(nco_records))
  /\ WF_vars(SaveCsv)
  /\ WF_vars(ComputeStats)
  /\ WF_vars(PrintReport)

\* The O*NET documents of runs that differ in the target records: no
\* page, a record whose title differs from the title that the rule tables
\* give its code, and the document of OnetDocs.
TargetDocs ==
  { <<>>, <<"23-1011.00 Attorneys">> } \cup OnetDocs

\* Runs of main on every source document with every target document.
InitTargets ==
  /\ pc = "extract_nco"
  /\ nco_pdf \in NcoDocs(MaxPages, MaxDocLines)
  /\ onet_pdf \in TargetDocs
  /\ nco_records = <<>>
  /\ onet_records = <<>>
  /\ mapping = <<>>
  /\ output_file = <<>>
  /\ stats = Pending
  /\ exception = ""
  /\ title = ""
  /\ nco_code = ""
  /\ match_result = Pending
  /\ table_writes = <<>>
  /\ workers = [w \in Workers |-> Idle]
  /\ results = {}

SpecTargets == InitTargets /\ [][Next]_vars

\* ------------------------------------------------------------------------
\* Direct calls of find_semantic_match, with any title and any code
\* ------------------------------------------------------------------------

InitMatch ==
  /\ pc = "call"
  /\ title \in Titles
  /\ nco_code \in NcoCodes
  /\ match_result = Pending
  /\ table_writes = <<>>
  /\ workers = [w \in Workers |-> Idle]
  /\ results = {}
  /\ nco_pdf = <<>>
  /\ onet_pdf = <<>>
  /\ nco_records = <<>>
  /\ onet_records = <<>>
  /\ mapping = <<>>
  /\ output_file = <<>>
  /\ stats = Pending
  /\ exception = ""

CallMatch ==
  /\ pc = "call"
  /\ match_result = Pending
  /\ match_result' = find_semantic_match(title, nco_code)
  /\ UNCHANGED <<title, nco_code, run_vars, worker_vars, table_writes>>

NextMatch == CallMatch

SpecMatch == InitMatch /\ [][NextMatch]_vars

\* ------------------------------------------------------------------------
\* extract_nco_records alone, on a document of one line
\* ------------------------------------------------------------------------

InitExtract ==
  /\ pc = "extract_nco"
  /\ nco_pdf \in {<<line>> : line \in Lines(MaxLineTokens)}
  /\ onet_pdf = <<>>
  /\ nco_records = <<>>
  /\ onet_records = <<>>
  /\ mapping = <<>>
  /\ output_file = <<>>
  /\ stats = Pending
  /\ exception = ""
  /\ title = ""
  /\ nco_code = ""
  /\ match_result = Pending
  /\ table_writes = <<>>
  /\ workers = [w \in Workers |-> Idle]
  /\ results = {}

NextExtract == ExtractNco

SpecExtract == InitExtract /\ [][NextExtract]_vars

\* ------------------------------------------------------------------------
\* extract_onet_records alone, on a document of one line
\* ------------------------------------------------------------------------

\* Tokens that the lines handed to extract_onet_records alone are made of: a
\* code, a title, the annotation, the two leading tokens, the text of a
\* navigation line, and the empty token, which doubles a space or puts one at
\* an end of the line.
OnetLineTokens ==
  { "23-1011.00", "Lawyers", "Bright Outlook", "1", "Not available",
    "Save Table", "" }

\* The O*NET lines of at most max_tokens tokens.
OnetLines(max_tokens) ==
  {join_tokens(ts) : ts \in SeqsUpTo(OnetLineTokens, max_tokens)}

InitExtractOnet ==
  /\ pc = "extract_onet"
  /\ onet_pdf \in {<<line>> : line \in OnetLines(MaxLineTokens)}
  /\ nco_pdf = <<>>
  /\ nco_records = <<>>
  /\ onet_records = <<>>
  /\ mapping = <<>>
  /\ output_file = <<>>
  /\ stats = Pending
  /\ exception = ""
  /\ title = ""
  /\ nco_code = ""
  /\ match_result = Pending
  /\ table_writes = <<>>
  /\ workers = [w \in Workers |-> Idle]
  /\ results = {}

NextExtractOnet == ExtractOnet

SpecExtractOnet == InitExtractOnet /\ [][NextExtractOnet]_vars

\* ------------------------------------------------------------------------
\* extract_nco_records alone, on a document of several pages
\* ------------------------------------------------------------------------

RECURSIVE NcoPagedDocs(_, _)
\* NcoDocs(max_pages, max_lines), built page by page: no page, or a first
\* page of k lines before a document of the lines that are left.
NcoPagedDocs(max_pages, max_lines) ==
  IF max_pages = 0 THEN {<<>>}
  ELSE {<<>>} \cup
       UNION { { <<join_lines(page)>> \o rest :
                   page \in [1..k -> NcoSampleLines],
                   rest \in NcoPagedDocs(max_pages - 1, max_lines - k) } :
                 k \in 0..max_lines }

InitExtractPages ==
  /\ pc = "extract_nco"
  /\ nco_pdf \in NcoPagedDocs(MaxExtractPages, MaxDocLines)
  /\ onet_pdf = <<>>
  /\ nco_records = <<>>
  /\ onet_records = <<>>
  /\ mapping = <<>>
  /\ output_file = <<>>
  /\ stats = Pending
  /\ exception = ""
  /\ title = ""
  /\ nco_code = ""
  /\ match_result = Pending
  /\ table_writes = <<>>
  /\ workers = [w \in Workers |-> Idle]
  /\ results = {}

NextExtractPages == ExtractNco

SpecExtractPages == InitExtractPages /\ [][NextExtractPages]_vars

\* ------------------------------------------------------------------------
\* Threads calling find_semantic_match side by side, again and again
\* ------------------------------------------------------------------------

\* The (title, nco_code) pairs the threads call with: a keyword title, and a
\* title without keyword with a code of each later tier and of none.
CallInputs ==
  { <<"Senior Advocate", "1111.0001">>,
    <<"Unrecognized Title", "1121.0001">>,
    <<"Unrecognized Title", "0999.0001">> }

InitWorkers ==
  /\ pc = "workers"
  /\ workers = [w \in Workers |-> Idle]
  /\ results = {}
  /\ table_writes = <<>>
  /\ nco_pdf = <<>>
  /\ onet_pdf = <<>>
  /\ nco_records = <<>>
  /\ onet_records = <<>>
  /\ mapping = <<>>
  /\ output_file = <<>>
  /\ stats = Pending
  /\ exception = ""
  /\ title = ""
  /\ nco_code = ""
  /\ match_result = Pending

\* The thread w goes to where and takes the result res (Pending: none yet).
Goto(w, where, res) ==
  workers' = [workers EXCEPT ![w].pc = where, ![w].result = res]

\* The thread w enters find_semantic_match(input[1], input[2]) with fresh
\* locals.
Invoke(w, input) ==
  /\ pc = "workers"
  /\ workers[w].pc = "idle"
  /\ workers' = [workers EXCEPT ![w] =
                   [Idle EXCEPT !.pc = "lower", !.title = input[1],
                                !.nco_code = input[2]]]
  /\ UNCHANGED <<results, table_writes, run_vars, call_vars>>

\* title_lower = title.lower(), with the variant below in which the lowered
\* title is kept in one place for all threads.
StepLower_shared(w) ==
  /\ workers[w].pc = "lower"
  /\ workers' = [v \in Workers |->
                   IF v = w
                   THEN [workers[v] EXCEPT !.pc = "keywords",
                                           !.title_lower = lower(workers[w].title)]
                   ELSE [workers[v] EXCEPT !.title_lower = lower(workers[w].title)]]
  /\ UNCHANGED <<results, table_writes, run_vars, call_vars>>

\* title_lower = title.lower()
StepLower(w) ==
  /\ workers[w].pc = "lower"
  /\ workers' = [workers EXCEPT ![w].pc = "keywords",
                                ![w].title_lower = lower(workers[w].title)]
  /\ UNCHANGED <<results, table_writes, run_vars, call_vars>>

\* StepKeywords with a memo of earlier results, looked up by the title alone.
StepKeywords_title_memo(w) ==
  /\ workers[w].pc = "keywords"
  /\ LET memo == {r \in results : r.title = workers[w].title}
         hit  == keyword_tier(workers[w].title_lower)
     IN  IF memo # {} THEN Goto(w, "returned", (CHOOSE r \in memo : TRUE).result)
         ELSE IF hit # <<>> THEN Goto(w, "returned", Returned(hit[1]))
         ELSE Goto(w, "prefix", Pending)
  /\ UNCHANGED <<results, table_writes, run_vars, call_vars>>

\* The keywords are sorted and tried in turn on title_lower; the first that
\* occurs in it ends the call.
StepKeywords(w) ==
  /\ workers[w].pc = "keywords"
  /\ LET hit == keyword_tier(workers[w].title_lower)
     IN  IF hit # <<>> THEN Goto(w, "returned", Returned(hit[1]))
         ELSE Goto(w, "prefix", Pending)
  /\ UNCHANGED <<results, table_writes, run_vars, call_vars>>

\* prefix = nco_code[:4]; if prefix in NCO_PREFIX_DEFAULTS: return
StepPrefix(w) ==
  /\ workers[w].pc = "prefix"
  /\ LET hit == prefix_tier(workers[w].nco_code)
     IN  IF hit # <<>> THEN Goto(w, "returned", Returned(hit[1]))
         ELSE Goto(w, "prefix3", Pending)
  /\ UNCHANGED <<results, table_writes, run_vars, call_vars>>

\* prefix3 = nco_code[:3] + '0'; if prefix3 in NCO_PREFIX_DEFAULTS: return
StepPrefix3(w) ==
  /\ workers[w].pc = "prefix3"
  /\ LET hit == prefix3_tier(workers[w].nco_code)
     IN  IF hit # <<>> THEN Goto(w, "returned", Returned(hit[1]))
         ELSE Goto(w, "division", Pending)
  /\ UNCHANGED <<results, table_writes, run_vars, call_vars>>

\* division = nco_code[0], which raises IndexError on the empty code; if
\* division in DIVISION_DEFAULTS: return; otherwise return '', '', 0.
StepDivision(w) ==
  /\ workers[w].pc = "division"
  /\ LET hit == division_tier(workers[w].nco_code)
     IN  IF workers[w].nco_code = "" THEN Goto(w, "returned", Raised("IndexError"))
         ELSE IF hit # <<>> THEN Goto(w, "returned", Returned(hit[1]))
         ELSE Goto(w, "returned", Returned(<<"", "", 0>>))
  /\ UNCHANGED <<results, table_writes, run_vars, call_vars>>

\* The caller of thread w takes the result; the thread is free for its next
\* call.
Return(w) ==
  /\ workers[w].pc = "returned"
  /\ results' = results \cup {[title    |-> workers[w].title,
                               nco_code |-> workers[w].nco_code,
                               result   |-> workers[w].result]}
  /\ workers' = [workers EXCEPT ![w] = Idle]
  /\ UNCHANGED <<table_writes, run_vars, call_vars>>

NextWorkers ==
  \E w \in Workers :
    \/ \E input \in CallInputs : Invoke(w, input)
    \/ StepLower(w)
    \/ StepKeywords(w)
    \/ StepPrefix(w)
    \/ StepPrefix3(w)
    \/ StepDivision(w)
    \/ Return(w)

SpecWorkers == InitWorkers /\ [][NextWorkers]_vars

\* ------------------------------------------------------------------------
\* Properties of find_semantic_match (SpecMatch)
\* ------------------------------------------------------------------------

\* The direct call has been made.
Called == pc = "call" /\ match_result # Pending

\* The keywords of the table that occur in the lower-cased title t.
KeywordsFound(t) ==
  LET t_lower == lower(t)
  IN  {k \in {SEMANTIC_KEYWORDS[i][1] : i \in 1..Len(SEMANTIC_KEYWORDS)} :
         Contains(k, t_lower)}

\* The same for each title of Titles, looked up once.
KeywordsOfTitle == [t \in Titles |-> KeywordsFound(t)]

KeywordsIn(t) == IF t \in Titles THEN KeywordsOfTitle[t] ELSE KeywordsFound(t)

\* The code has an entry in the prefix table under its first 4 characters.
HasPrefixEntry(code) == DictHas(NCO_PREFIX_DEFAULTS, Slice(code, 4))

\* The code has an entry in the prefix table under its first 3 characters
\* followed by '0'.
HasPrefix3Entry(code) == DictHas(NCO_PREFIX_DEFAULTS, Slice(code, 3) \o "0")

\* C1: for every title and every non-empty primary code, find_semantic_match
\* returns, and the score it returns is one of 0, 60, 75, 80, 95.
C1_ScoreInTierSet ==
  (Called /\ nco_code # "") =>
     /\ match_result.raised = ""
     /\ match_result.value[3] \in {0, 60, 75, 80, 95}

\* A call without keyword in the title that resolved in the coarse prefix
\* tier.
C1_Witness ==
  /\ Called
  /\ nco_code = "1121.0001"
  /\ KeywordsIn(title) = {}
  /\ match_result.raised = ""
  /\ match_result.value[3] = 75

\* C2: whenever the lower-cased title contains a keyword, the call returns
\* the rule of a keyword that occurs in the title, with score 95, whatever
\* the primary code is and whatever entries the fallback tables have for it.
C2_KeywordTierFirst ==
  (Called /\ KeywordsIn(title) # {}) =>
     /\ match_result.raised = ""
     /\ match_result.value[3] = 95
     /\ \E k \in KeywordsIn(title) :
          <<match_result.value[1], match_result.value[2]>> =
             DictGet(SEMANTIC_KEYWORDS, k)

\* A title with a keyword and a code with entries in every fallback table,
\* resolved by the keyword and not by the entry of prefix 1111.
C2_Witness ==
  /\ Called
  /\ title = "Senior Advocate"
  /\ nco_code = "1111.0001"
  /\ HasPrefixEntry(nco_code)
  /\ DictHas(DIVISION_DEFAULTS, "1")
  /\ match_result = Returned(<<"23-1011.00", "Lawyers", 95>>)

\* C3: the rule returned in the keyword tier is that of a keyword of maximal
\* length among the keywords that occur in the lower-cased title; the title
\* "principal, college of arts" resolves to 11-9033.00, the rule of
\* "principal, college", not to 11-9032.00, the rule of "principal".
C3_LongestKeywordWins ==
  (Called /\ KeywordsIn(title) # {}) =>
     /\ match_result.raised = ""
     /\ \E k \in KeywordsIn(title) :
          /\ \A k2 \in KeywordsIn(title) : Len(k2) <= Len(k)
          /\ <<match_result.value[1], match_result.value[2]>> =
                DictGet(SEMANTIC_KEYWORDS, k)
     /\ title = "principal, college of arts" =>
          match_result.value[1] = "11-9033.00"

\* The title of the claim, in which both "principal" and "principal, college"
\* occur, resolved to the rule of the longer one.
C3_Witness ==
  /\ Called
  /\ title = "principal, college of arts"
  /\ {"principal", "principal, college"} \subseteq KeywordsIn(title)
  /\ match_result.raised = ""
  /\ match_result.value[1] = "11-9033.00"

\* C4: for every division d of DIVISION_DEFAULTS, a code that begins with d,
\* with no keyword in the title and neither code[:4] nor code[:3]+'0' in the
\* prefix table, resolves to DIVISION_DEFAULTS[d] at score 60.
C4_FallbackCompleteness ==
  \A n \in 1..Len(DIVISION_DEFAULTS) :
     LET d == DIVISION_DEFAULTS[n][1]
     IN  ( /\ Called
           /\ StartsWith(nco_code, d)
           /\ KeywordsIn(title) = {}
           /\ ~HasPrefixEntry(nco_code)
           /\ ~HasPrefix3Entry(nco_code) ) =>
         match_result = Returned(<<DIVISION_DEFAULTS[n][2][1],
                                   DIVISION_DEFAULTS[n][2][2], 60>>)

\* A code of division 9 without prefix entries and a title without keyword,
\* resolved at score 60.
C4_Witness ==
  /\ Called
  /\ title = "Unrecognized Title"
  /\ nco_code = "9999.0001"
  /\ KeywordsIn(title) = {}
  /\ ~HasPrefixEntry(nco_code)
  /\ ~HasPrefix3Entry(nco_code)
  /\ match_result.raised = ""
  /\ match_result.value[3] = 60

\* C5: for a non-empty code the call returns score 0 exactly when no tier
\* applies (no keyword in the title, neither code[:4] nor code[:3]+'0' in
\* the prefix table, code[0] not in the division table); and whenever the
\* call returns, target code and target title are both empty exactly when
\* the score is 0.
C5_UnresolvedOutcome ==
  Called =>
     /\ match_result.raised = "" =>
          ( (match_result.value[1] = "" /\ match_result.value[2] = "")
              <=> match_result.value[3] = 0 )
     /\ nco_code # "" =>
          /\ match_result.raised = ""
          /\ match_result.value[3] = 0 <=>
               /\ KeywordsIn(title) = {}
               /\ ~HasPrefixEntry(nco_code)
               /\ ~HasPrefix3Entry(nco_code)
               /\ ~DictHas(DIVISION_DEFAULTS, SubSeq(nco_code, 1, 1))

\* A code of division 0, which no table covers, with a title without
\* keyword: the unresolved outcome.
C5_Witness ==
  /\ Called
  /\ title = "Unrecognized Title"
  /\ nco_code = "0999.0001"
  /\ match_result = Returned(<<"", "", 0>>)

\* ------------------------------------------------------------------------
\* Properties of a run of create_crosswalk (Spec)
\* ------------------------------------------------------------------------

\* The loop over nco_records is over: the output file has been written.
LoopDone == output_file # <<>>

\* The records of the sample lines, each with what find_semantic_match
\* returns for its title and primary code.
SampleRecords ==
  UNION { {nco_records_of(<<l>>)[i] : i \in 1..Len(nco_records_of(<<l>>))} :
            l \in NcoSampleLines }

MatchOfSample ==
  [nco \in SampleRecords |-> find_semantic_match(nco.title, nco.nco2015)]

\* What find_semantic_match returns for the title and primary code of a record.
Matched(nco) ==
  IF nco \in SampleRecords
  THEN MatchOfSample[nco]
  ELSE find_semantic_match(nco.title, nco.nco2015)

\* C6: the mapping has one entry per source record, in input order: while
\* the loop runs the mapping is a prefix of that, after the loop it has as
\* many entries as there are records; entry i carries the primary code, the
\* secondary code and the title of record i unchanged, with what the matcher
\* returns for (title_i, primary_code_i); a record that resolves to score 0
\* has its entry, with empty target code and title.
C6_OneEntryPerRecord ==
  /\ Len(mapping) <= Len(nco_records)
  /\ LoopDone => Len(mapping) = Len(nco_records)
  /\ \A i \in 1..Len(mapping) :
       LET nco     == nco_records[i]
           matched == Matched(nco)
       IN  /\ matched.raised = ""
           /\ mapping[i].NCO_2015_Code = nco.nco2015
           /\ mapping[i].NCO_2004_Code = nco.nco2004
           /\ mapping[i].NCO_Job_Title = nco.title
           /\ mapping[i].ONET_Code = matched.value[1]
           /\ mapping[i].ONET_Job_Title = matched.value[2]
           /\ mapping[i].Match_Score = matched.value[3]
           /\ mapping[i].Match_Score = 0 =>
                mapping[i].ONET_Code = "" /\ mapping[i].ONET_Job_Title = ""

\* A finished run over two records, the second of them unmatched and kept
\* with an empty target.
C6_Witness ==
  /\ pc = "done"
  /\ Len(nco_records) = 2
  /\ Len(mapping) = 2
  /\ mapping[1].Match_Score = 95
  /\ mapping[2].Match_Score = 0
  /\ mapping[2].NCO_2015_Code = "0999.0001"
  /\ mapping[2].ONET_Code = ""

\* The two-line source document of the end-to-end scenario.
ScenarioDoc ==
  nco_pdf = <<"1111.0001 Senior Advocate 1111.01\n9999.0001 Unrecognized Title">>

\* The scenario with its second line in division 0, which no table covers.
ScenarioDocDivision0 ==
  nco_pdf = <<"1111.0001 Senior Advocate 1111.01\n0999.0001 Unrecognized Title">>

C8_QualityStatistics ==
  stats # Pending =>
     LET n      == Len(mapping)
         in(lo, hi) == Cardinality({i \in 1..n : /\ lo <= mapping[i].Match_Score
                                                  /\ mapping[i].Match_Score <= hi})
         st     == stats.value
     IN  /\ st.total_records = n
         /\ st.total_records = Len(nco_records)
         /\ st.semantic_matches = in(90, 100)
         /\ st.prefix_matches = in(80, 89)
         /\ st.division_matches = in(60, 79)
         /\ st.division_matches = in(60, 60) + in(75, 75)
         /\ st.low_matches = in(1, 59)
         /\ st.no_matches = in(0, 0)
         /\ st.semantic_matches + st.prefix_matches + st.division_matches
              + st.low_matches + st.no_matches = st.total_records
         /\ st.nco2004_coverage =
              Cardinality({i \in 1..Len(nco_records) : nco_records[i].nco2004 # ""})

\* Statistics of a run with a coarse-prefix entry (score 75), counted as a
\* division match, and a record with a secondary code.
C8_Witness ==
  /\ pc = "done"
  /\ Len(mapping) = 2
  /\ mapping[1].Match_Score = 75
  /\ mapping[2].Match_Score = 80
  /\ stats.value.division_matches = 1
  /\ stats.value.prefix_matches = 1
  /\ stats.value.nco2004_coverage = 1

\* ------------------------------------------------------------------------
\* Properties of extract_nco_records on one line (SpecExtract)
\* ------------------------------------------------------------------------

\* The extraction of the source document is over.
Extracted == pc = "extract_onet"

\* The line of the one-line source document.
TheLine == nco_pdf[1]

\* The text between the primary code and the last k characters of the line.
Middle(line, k) == SubSeq(line, 10, Len(line) - k)

\* The line is "<NNNN.NNNN> <title> <NNNN.NN>": a primary code, a space, a
\* non-empty title, a space, a secondary code.
HasSecondaryForm(line) ==
  /\ Len(line) >= 9 + 1 + 1 + 1 + 7
  /\ IsNco2015Code(SubSeq(line, 1, 9))
  /\ SubSeq(line, 10, 10) = " "
  /\ SubSeq(line, Len(line) - 7, Len(line) - 7) = " "
  /\ IsNco2004Code(SubSeq(line, Len(line) - 6, Len(line)))
  /\ ~AllSpace(Middle(line, 7))

\* The line is "<NNNN.NNNN> <title>" and does not end in the secondary-code
\* pattern.
HasNoSecondaryForm(line) ==
  /\ Len(line) >= 9 + 1 + 1
  /\ IsNco2015Code(SubSeq(line, 1, 9))
  /\ SubSeq(line, 10, 10) = " "
  /\ SubSeq(line, Len(line), Len(line)) # " "
  /\ ~(Len(line) >= 7 /\ IsNco2004Code(SubSeq(line, Len(line) - 6, Len(line))))

\* The line carries one of the texts the extractor treats as noise.
NoiseLine(line) ==
  \/ \E p \in {"Division", "Sub-", "Group", "Family"} :
        Len(line) >= Len(p) /\ SubSeq(line, 1, Len(p)) = p
  \/ Contains("National Classification of Occupations", line)
  \/ Contains("VOLUME", line)
  \/ Contains("NCO 2015", line) /\ Contains("NCO 2004", line)

\* C9 as claimed: every line "<NNNN.NNNN> <title> <NNNN.NN>" yields one
\* record with that primary code, title and secondary code, and every line
\* "<NNNN.NNNN> <title>" without a secondary-code pattern at its end yields
\* one record with that primary code and title and an empty secondary code.
C9_AsClaimed ==
  Extracted =>
    /\ HasSecondaryForm(TheLine) =>
         nco_records = << [nco2015 |-> SubSeq(TheLine, 1, 9),
                           title   |-> strip(Middle(TheLine, 7)),
                           nco2004 |-> SubSeq(TheLine, Len(TheLine) - 6, Len(TheLine))] >>
    /\ HasNoSecondaryForm(TheLine) =>
         nco_records = << [nco2015 |-> SubSeq(TheLine, 1, 9),
                           title   |-> strip(Middle(TheLine, 0)),
                           nco2004 |-> ""] >>

\* C9, amended: a line of either form yields that one record provided it
\* carries none of the noise texts (the running headers 'National
\* Classification of Occupations' and 'VOLUME', or both column headers
\* 'NCO 2015' and 'NCO 2004'); a line of either form that carries one of
\* them yields no record.
C9_ExtractionRoundTrip ==
  Extracted =>
    /\ (HasSecondaryForm(TheLine) /\ ~NoiseLine(TheLine)) =>
         nco_records = << [nco2015 |-> SubSeq(TheLine, 1, 9),
                           title   |-> strip(Middle(TheLine, 7)),
                           nco2004 |-> SubSeq(TheLine, Len(TheLine) - 6, Len(TheLine))] >>
    /\ (HasNoSecondaryForm(TheLine) /\ ~NoiseLine(TheLine)) =>
         nco_records = << [nco2015 |-> SubSeq(TheLine, 1, 9),
                           title   |-> strip(Middle(TheLine, 0)),
                           nco2004 |-> ""] >>
    /\ ((HasSecondaryForm(TheLine) \/ HasNoSecondaryForm(TheLine)) /\ NoiseLine(TheLine)) =>
         nco_records = <<>>

\* The example line with a secondary code, extracted.
C9_Witness ==
  /\ Extracted
  /\ TheLine = "1111.0001 Chief Legislator 1111.01"
  /\ nco_records = << [nco2015 |-> "1111.0001", title |-> "Chief Legislator",
                       nco2004 |-> "1111.01"] >>

\* C10: a line that starts with 'Division', 'Sub-', 'Group' or 'Family', or
\* contains 'National Classification of Occupations' or 'VOLUME', or contains
\* both 'NCO 2015' and 'NCO 2004', produces no record, also when the rest of
\* it has the shape of a record; the line "Division 1 - Managers" produces
\* no record.
C10_NoiseRejected ==
  Extracted =>
    /\ NoiseLine(TheLine) => nco_records = <<>>
    /\ TheLine = "Division 1 - Managers" => nco_records = <<>>

\* A line with the shape of a record and a running header in its title,
\* extracted to nothing.
C10_Witness ==
  /\ Extracted
  /\ TheLine = "1111.0001 VOLUME 1111.01"
  /\ HasSecondaryForm(TheLine)
  /\ nco_records = <<>>

\* ------------------------------------------------------------------------
\* Properties of calls made side by side and one after another (SpecWorkers)
\* ------------------------------------------------------------------------

\* What find_semantic_match returns for each of the inputs when it runs
\* alone, from start to end.
Alone == [input \in CallInputs |-> find_semantic_match(input[1], input[2])]

\* The lowered title of each of the inputs.
Lowered == [input \in CallInputs |-> lower(input[1])]

\* C11: whatever calls were made before and whatever calls are under way,
\* a call that returned gave what its (title, nco_code) alone determine with
\* the rule tables; so two calls with the same title and code, anywhere in
\* the run, returned the same triple.
C11_MatcherIsPure ==
  /\ \A r \in results : r.result = Alone[<<r.title, r.nco_code>>]
  /\ \A r1, r2 \in results :
       (r1.title = r2.title /\ r1.nco_code = r2.nco_code) => r1.result = r2.result

\* Calls with the same title and different codes have returned, with their
\* different results, and a further call with that title is at its end.
C11_Witness ==
  /\ [title |-> "Unrecognized Title", nco_code |-> "1121.0001",
      result |-> Returned(<<"11-1011.00", "Chief Executives", 75>>)] \in results
  /\ [title |-> "Unrecognized Title", nco_code |-> "0999.0001",
      result |-> Returned(<<"", "", 0>>)] \in results
  /\ \E w \in Workers :
       /\ workers[w].pc = "returned"
       /\ workers[w].title = "Unrecognized Title"
       /\ workers[w].nco_code = "0999.0001"
       /\ workers[w].result = Returned(<<"", "", 0>>)

\* C12: under every interleaving of the threads' steps, a call that has
\* reached its end holds the triple the same call gives when it runs alone,
\* and the entry made of it for a record with that title and code is the one
\* the sequential loop makes; the threads write nothing but their own locals
\* and the rule tables stay as loaded.
C12_NoSynchronizationNeeded ==
  /\ table_writes = <<>>
  /\ \A w \in Workers :
       workers[w].pc = "returned" =>
         LET nco == [nco2015 |-> workers[w].nco_code,
                     title   |-> workers[w].title, nco2004 |-> ""]
             alone == Alone[<<workers[w].title, workers[w].nco_code>>]
         IN  /\ workers[w].result = alone
             /\ mapping_entry(nco, workers[w].result.value)
                  = mapping_entry(nco, alone.value)
  /\ \A w \in Workers :
       workers[w].pc \in {"keywords", "prefix", "prefix3", "division"} =>
         workers[w].title_lower = Lowered[<<workers[w].title, workers[w].nco_code>>]

\* One thread is at the end of its call while another, called with another
\* title, is in the middle of its own.
C12_Witness ==
  \E v, w \in Workers :
    /\ workers[v].pc = "returned"
    /\ workers[v].title = "Senior Advocate"
    /\ workers[v].result = Returned(<<"23-1011.00", "Lawyers", 95>>)
    /\ workers[w].pc = "prefix3"
    /\ workers[w].title = "Unrecognized Title"

\* ------------------------------------------------------------------------
\* Further properties of a run of create_crosswalk (Spec)
\* ------------------------------------------------------------------------

\* C13: at every point of a run, through extraction, matching and assembly,
\* SEMANTIC_KEYWORDS, NCO_PREFIX_DEFAULTS and DIVISION_DEFAULTS hold exactly
\* the keys and values, in the order, they held at load.
C13_RuleBaseNeverMutated ==
  /\ rule_base.SEMANTIC_KEYWORDS = SEMANTIC_KEYWORDS
  /\ rule_base.NCO_PREFIX_DEFAULTS = NCO_PREFIX_DEFAULTS
  /\ rule_base.DIVISION_DEFAULTS = DIVISION_DEFAULTS

\* A finished run that matched one record by its division and one by the
\* coarse prefix; the key the coarse prefix stood in for is still absent.
C13_Witness ==
  /\ pc = "done"
  /\ Len(mapping) = 2
  /\ mapping[1].Match_Score = 60
  /\ mapping[2].Match_Score = 75
  /\ mapping[2].NCO_2015_Code = "1121.0001"
  /\ ~DictHas(rule_base.NCO_PREFIX_DEFAULTS, "1121")
  /\ Len(rule_base.NCO_PREFIX_DEFAULTS) = Len(NCO_PREFIX_DEFAULTS)

\* The line matches neither pattern of extract_nco_records.
NcoMalformed(line) ==
  nco_match(strip(line)) = <<>> /\ nco_match2(strip(line)) = <<>>

\* The line matches none of the three patterns of extract_onet_records.
OnetMalformed(line) ==
  /\ onet_pattern(strip(line), <<"Not available", "digit", "">>, 0) = <<>>
  /\ onet_pattern(strip(line), <<"digit">>, 1) = <<>>
  /\ onet_pattern(strip(line), <<"Not available">>, 1) = <<>>

\* The elements of the sequence s at the positions in kept, in order.
Subsequence(s, kept) ==
  [k \in 1..Cardinality(kept) |->
     s[CHOOSE i \in kept : Cardinality({j \in kept : j <= i}) = k]]

\* For each O*NET document of a run: whether its malformed lines give no
\* record, and the records of the document without them.
OnetWellFormedPart ==
  [pdf \in OnetDocs |->
     LET lines == document_lines(pdf)
         kept  == {i \in 1..Len(lines) : ~OnetMalformed(lines[i])}
     IN  [malformed_give_nothing |->
            \A i \in (1..Len(lines)) \ kept : onet_line_records(lines[i]) = <<>>,
          records |-> onet_records_of(Subsequence(lines, kept))]]

\* C14: extraction and matching end without an exception, whatever the
\* lines are (the only exception of a run is the ZeroDivisionError of
\* print_validation_report, after create_crosswalk returned); a line that
\* matches none of the record patterns gives no record, and the records
\* extracted are those of the document without such lines, in both
\* extractors; every extracted record, with a keyword in its title or not,
\* gets its entry.
C14_NoRaiseOnDataQuality ==
  /\ exception # "" =>
       (exception = "ZeroDivisionError" /\ pc = "crashed" /\ stats # Pending)
  /\ pc = "crashed" => exception # ""
  /\ pc = "extract_onet" =>
       LET lines == document_lines(nco_pdf)
           kept  == {i \in 1..Len(lines) : ~NcoMalformed(lines[i])}
       IN  /\ \A i \in (1..Len(lines)) \ kept : nco_line_records(lines[i]) = <<>>
           /\ nco_records = nco_records_of(Subsequence(lines, kept))
  /\ (pc = "match" /\ mapping = <<>>) =>
       /\ OnetWellFormedPart[onet_pdf].malformed_give_nothing
       /\ onet_records = OnetWellFormedPart[onet_pdf].records
  /\ pc \in {"stats", "report", "done"} => Len(mapping) = Len(nco_records)

\* A line of prose before a record line: the record is extracted, and the
\* run goes on.
C14_Witness ==
  /\ pc = "done"
  /\ nco_pdf = <<"see footnote 12\n1111.0001 Senior Advocate 1111.01">>
  /\ nco_records = << [nco2015 |-> "1111.0001", title |-> "Senior Advocate",
                       nco2004 |-> "1111.01"] >>
  /\ Len(onet_records) = 2
  /\ Len(mapping) = 1
  /\ exception = ""

\* The document has no page, or only pages without text.
NoText(pdf) == \A p \in 1..Len(pdf) : pdf[p] = ""

\* Every line of the document matches no record pattern or is a noise line.
NoRecordLine(pdf) ==
  LET lines == document_lines(pdf)
  IN  \A i \in 1..Len(lines) :
        NoiseLine(strip(lines[i])) \/ NcoMalformed(lines[i])

\* C15: a document without pages, with only empty pages, or whose lines give
\* no record is extracted to the empty sequence, without an exception;
\* create_crosswalk on such a source makes no entry, writes
\* the header alone and returns statistics whose seven counts are 0.
C15_EmptyExtractionIsData ==
  /\ (pc # "extract_nco" /\ nco_records # <<>>) =>
        ~(NoText(nco_pdf) \/ NoRecordLine(nco_pdf))
  /\ (pc \notin {"extract_nco", "extract_onet"} /\ nco_records = <<>>) =>
        /\ mapping = <<>>
        /\ pc \in {"match", "stats", "report", "crashed"}
        /\ pc # "match" => output_file = <<CSV_FIELDNAMES>>
        /\ pc \in {"report", "crashed"} =>
             /\ stats.raised = ""
             /\ \A f \in DOMAIN stats.value : stats.value[f] = 0
             /\ DOMAIN stats.value =
                  {"total_records", "semantic_matches", "prefix_matches",
                   "division_matches", "low_matches", "no_matches",
                   "nco2004_coverage"}
        /\ pc # "crashed" => exception = ""

\* create_crosswalk has returned from a document of one page without text.
C15_Witness ==
  /\ pc = "report"
  /\ nco_pdf = <<"">>
  /\ nco_records = <<>>
  /\ mapping = <<>>
  /\ stats.value.total_records = 0
  /\ exception = ""

\* C16 as claimed: a run of the assembler performs no persistence; nothing
\* is ever written to the output file.
C16_AsClaimed == output_file = <<>>

\* C16, amended: besides its return value, the statistics, create_crosswalk
\* has one effect (progress messages apart): once the loop is over it writes
\* the header and one row per entry, in order, to the file at output_path.
\* No step changes the source documents or the rule tables, the extracted
\* records change only where they are extracted, and the statistics are
\* returned after the file is written.
C16_AssemblerEffects ==
  [][/\ nco_pdf' = nco_pdf
     /\ onet_pdf' = onet_pdf
     /\ table_writes' = table_writes
     /\ pc # "extract_nco" => nco_records' = nco_records
     /\ pc # "extract_onet" => onet_records' = onet_records
     /\ output_file' # output_file =>
          /\ pc = "match" /\ pc' = "stats"
          /\ mapping' = mapping
          /\ Len(mapping) = Len(nco_records)
          /\ output_file' = <<CSV_FIELDNAMES>> \o [i \in 1..Len(mapping) |-> csv_row(mapping[i])]
          /\ Len(output_file') = 1 + Len(nco_records)
     /\ stats' # stats =>
          /\ pc = "stats" /\ pc' = "report"
          /\ Len(output_file) = 1 + Len(mapping)
          /\ stats'.value = crosswalk_stats(mapping)
          /\ mapping' = mapping /\ output_file' = output_file]_vars

\* The file has been written, the header and two rows, and the statistics
\* are not computed yet.
C16_Witness ==
  /\ pc = "stats"
  /\ stats = Pending
  /\ Len(mapping) = 2
  /\ output_file = << CSV_FIELDNAMES,
                      <<"1111.0001", "1111.01", "Senior Advocate", "23-1011.00",
                        "Lawyers", "95">>,
                      <<"1111.0002", "", "Unrecognized Title", "11-1031.00",
                        "Legislators", "80">> >>

\* ------------------------------------------------------------------------
\* Further properties of find_semantic_match (SpecMatch)
\* ------------------------------------------------------------------------

\* s is "" or of the form NN-NNNN.NN.
TargetCodeForm(s) ==
  \/ s = ""
  \/ /\ Len(s) = 10
     /\ \A i \in {1, 2, 4, 5, 6, 7, 9, 10} : IsDigit(SubSeq(s, i, i))
     /\ SubSeq(s, 3, 3) = "-"
     /\ SubSeq(s, 8, 8) = "."

\* Every rule of the table d has a target code of the form NN-NNNN.NN.
RulesWellFormed(d) ==
  \A i \in 1..Len(d) : d[i][2][1] # "" /\ TargetCodeForm(d[i][2][1])

\* All three tables hold well-formed rules only.
AllRulesWellFormed ==
  /\ RulesWellFormed(SEMANTIC_KEYWORDS)
  /\ RulesWellFormed(NCO_PREFIX_DEFAULTS)
  /\ RulesWellFormed(DIVISION_DEFAULTS)

\* C17: the pair returned with score 95 is the pair stored under a keyword
\* that occurs in the title, with 80 the pair under code[:4], with 75 the
\* pair under code[:3] + '0', both in NCO_PREFIX_DEFAULTS, with 60 the pair
\* under code[0] in DIVISION_DEFAULTS: code and title always come from one
\* rule; every target code in the tables, and so every one returned, is of
\* the form NN-NNNN.NN, and the code returned with score 0 is empty.
C17_TargetsArePassThrough ==
  /\ AllRulesWellFormed
  /\ (Called /\ match_result.raised = "") =>
       LET pair  == <<match_result.value[1], match_result.value[2]>>
           score == match_result.value[3]
       IN  /\ TargetCodeForm(pair[1])
           /\ score = 95 =>
                \E k \in KeywordsIn(title) : pair = DictGet(SEMANTIC_KEYWORDS, k)
           /\ score = 80 =>
                /\ DictHas(NCO_PREFIX_DEFAULTS, Slice(nco_code, 4))
                /\ pair = DictGet(NCO_PREFIX_DEFAULTS, Slice(nco_code, 4))
           /\ score = 75 =>
                /\ DictHas(NCO_PREFIX_DEFAULTS, Slice(nco_code, 3) \o "0")
                /\ pair = DictGet(NCO_PREFIX_DEFAULTS, Slice(nco_code, 3) \o "0")
           /\ score = 60 =>
                /\ DictHas(DIVISION_DEFAULTS, Slice(nco_code, 1))
                /\ pair = DictGet(DIVISION_DEFAULTS, Slice(nco_code, 1))
           /\ score \notin {95, 80, 75, 60} => pair = <<"", "">>

\* A title with two keywords of different rules: the pair returned is the
\* pair of one of them.
C17_Witness ==
  /\ Called
  /\ title = "Doctor and Lawyer"
  /\ nco_code = "2310.0100"
  /\ match_result = Returned(<<"23-1011.00", "Lawyers", 95>>)
  /\ DictGet(SEMANTIC_KEYWORDS, "lawyer") = <<"23-1011.00", "Lawyers">>
  /\ DictGet(SEMANTIC_KEYWORDS, "doctor") # <<"23-1011.00", "Lawyers">>

\* C19: the call returns score 80 exactly when the title contains no keyword
\* and the leading 4 characters of the code are a key of
\* NCO_PREFIX_DEFAULTS, and then it returns that key's pair.
C19_FinePrefixTier ==
  Called =>
    LET applies == HasPrefixEntry(nco_code) /\ KeywordsIn(title) = {}
    IN
    /\ (match_result.raised = "" /\ match_result.value[3] = 80) <=> applies
    /\ applies =>
         match_result =
           Returned(<<DictGet(NCO_PREFIX_DEFAULTS, Slice(nco_code, 4))[1],
                      DictGet(NCO_PREFIX_DEFAULTS, Slice(nco_code, 4))[2], 80>>)

\* The empty title with a code whose 4-character prefix has an entry.
C19_Witness ==
  /\ Called
  /\ title = ""
  /\ nco_code = "1111.0001"
  /\ match_result = Returned(<<"11-1031.00", "Legislators", 80>>)

\* C20: the call returns score 75 exactly when the title contains no
\* keyword, the leading 4 characters of the code are not a key of
\* NCO_PREFIX_DEFAULTS and the leading 3 characters followed by '0' are, and
\* then it returns the pair of that key: a code starting 1121 gets the
\* entry of 1120.
C20_CoarsePrefixTier ==
  Called =>
    LET applies == /\ ~HasPrefixEntry(nco_code)
                   /\ HasPrefix3Entry(nco_code)
                   /\ KeywordsIn(title) = {}
    IN
    /\ (match_result.raised = "" /\ match_result.value[3] = 75) <=> applies
    /\ applies =>
         match_result =
           Returned(<<DictGet(NCO_PREFIX_DEFAULTS, Slice(nco_code, 3) \o "0")[1],
                      DictGet(NCO_PREFIX_DEFAULTS, Slice(nco_code, 3) \o "0")[2], 75>>)
    /\ (Slice(nco_code, 4) = "1121" /\ KeywordsIn(title) = {}) =>
         /\ ~DictHas(NCO_PREFIX_DEFAULTS, "1121")
         /\ match_result.value[1] = DictGet(NCO_PREFIX_DEFAULTS, "1120")[1]
         /\ match_result.value[3] = 75

\* The empty title with a code starting 1121, resolved by the entry of 1120.
C20_Witness ==
  /\ Called
  /\ title = ""
  /\ nco_code = "1121.0001"
  /\ match_result = Returned(<<"11-1011.00", "Chief Executives", 75>>)
  /\ DictGet(NCO_PREFIX_DEFAULTS, "1120") = <<"11-1011.00", "Chief Executives">>

\* ------------------------------------------------------------------------
\* Further properties of extract_nco_records on one line (SpecExtract)
\* ------------------------------------------------------------------------

\* C18: every record that extract_nco_records emits has a primary code of
\* the form NNNN.NNNN, a non-empty title without leading or trailing
\* whitespace, and a secondary code that is empty or of the form NNNN.NN;
\* and find_semantic_match returns for its title and primary code.
C18_AsClaimed ==
  Extracted =>
    \A i \in 1..Len(nco_records) :
      /\ IsNco2015Code(nco_records[i].nco2015)
      /\ IsDigit(SubSeq(nco_records[i].nco2015, 1, 1))
      /\ nco_records[i].title # ""
      /\ nco_records[i].title = strip(nco_records[i].title)
      /\ nco_records[i].nco2004 = "" \/ IsNco2004Code(nco_records[i].nco2004)
      /\ find_semantic_match(nco_records[i].title, nco_records[i].nco2015).raised = ""

\* ------------------------------------------------------------------------
\* The prefix tiers, letter case and the empty code (SpecMatch)
\* ------------------------------------------------------------------------

\* The 3-digit group of the code has entries in the prefix table, none of
\* them under a key that ends in '0', and the code's own 4-character prefix
\* is not among them.
FragileGroup(code) ==
  LET group == {i \in 1..Len(NCO_PREFIX_DEFAULTS) :
                  Slice(NCO_PREFIX_DEFAULTS[i][1], 3) = Slice(code, 3)}
  IN  /\ ~HasPrefixEntry(code)
      /\ group # {}
      /\ \A i \in group : SubSeq(NCO_PREFIX_DEFAULTS[i][1], 4, 4) # "0"

\* C21: for a code whose 4-character prefix is not in NCO_PREFIX_DEFAULTS and
\* whose 3-digit group has entries none of which ends in '0', the coarse tier
\* does not fire: the call never returns score 75, and with no keyword in the
\* title it returns the rule of the division, code[0], at score 60.
C21_CoarseTierFragility ==
  (Called /\ FragileGroup(nco_code)) =>
     /\ match_result.raised = ""
     /\ match_result.value[3] # 75
     /\ KeywordsIn(title) = {} =>
          /\ DictHas(DIVISION_DEFAULTS, SubSeq(nco_code, 1, 1))
          /\ match_result =
               Returned(<<DictGet(DIVISION_DEFAULTS, SubSeq(nco_code, 1, 1))[1],
                          DictGet(DIVISION_DEFAULTS, SubSeq(nco_code, 1, 1))[2], 60>>)

\* The code of the claim, 1115 with 1111-1114 in the table and 1110 not,
\* and a title without keyword, resolved by the division.
C21_Witness ==
  /\ Called
  /\ nco_code = "1115.0001"
  /\ title = "Unrecognized Title"
  /\ DictHas(NCO_PREFIX_DEFAULTS, "1111")
  /\ DictHas(NCO_PREFIX_DEFAULTS, "1114")
  /\ ~DictHas(NCO_PREFIX_DEFAULTS, "1110")
  /\ ~DictHas(NCO_PREFIX_DEFAULTS, "1115")
  /\ match_result = Returned(<<"11-1021.00", "General and Operations Managers", 60>>)

\* The character c with its letter case changed.
swap_char(c) ==
  IF \E i \in 1..Len(ASCII_UPPERCASE) : SubSeq(ASCII_UPPERCASE, i, i) = c
  THEN lower_char(c)
  ELSE IF \E i \in 1..Len(ASCII_LOWERCASE) : SubSeq(ASCII_LOWERCASE, i, i) = c
  THEN LET i == CHOOSE j \in 1..Len(ASCII_LOWERCASE) : SubSeq(ASCII_LOWERCASE, j, j) = c
       IN  SubSeq(ASCII_UPPERCASE, i, i)
  ELSE c

RECURSIVE swapcase(_)
\* s with the case of every letter changed: a title that differs from s in
\* letter case only, and in every letter.
swapcase(s) == IF s = "" THEN "" ELSE swap_char(Head(s)) \o swapcase(Tail(s))

\* Every key of SEMANTIC_KEYWORDS is in lower case.
KeywordsAreLowerCase ==
  \A i \in 1..Len(SEMANTIC_KEYWORDS) :
     lower(SEMANTIC_KEYWORDS[i][1]) = SEMANTIC_KEYWORDS[i][1]

\* C22: keyword matching is case-insensitive substring containment: the call
\* gives the same outcome for the title, for the title with the case of
\* every letter changed and for the title in lower case; it returns score 95
\* exactly when a keyword occurs somewhere in the lower-cased title, inside
\* a longer word or not; and every key of SEMANTIC_KEYWORDS is in lower case.
C22_CaseInsensitiveSubstring ==
  /\ KeywordsAreLowerCase
  /\ Called =>
       /\ match_result = find_semantic_match(swapcase(title), nco_code)
       /\ match_result = find_semantic_match(lower(title), nco_code)
       /\ KeywordsIn(title) # {}
            <=> (match_result.raised = "" /\ match_result.value[3] = 95)

\* The keyword "justice" inside the longer word "Injustice", written with a
\* capital: the rule of the keyword is returned, as for "iNJUSTICE".
C22_Witness ==
  /\ Called
  /\ title = "Injustice"
  /\ swapcase(title) = "iNJUSTICE"
  /\ Contains("justice", lower(title))
  /\ title # lower(title)
  /\ match_result =
       Returned(<<"23-1023.00", "Judges, Magistrate Judges, and Magistrates", 95>>)

\* C23: a call with the empty primary code ends in an exception, with no
\* triple returned, exactly when the title contains no keyword; when the
\* title contains a keyword the call returns the rule of a keyword of the
\* title at score 95, as it does for that title with any other code; for
\* every primary code of at least one character the call returns a triple.
C23_EmptyCodeFailsFast ==
  Called =>
     LET found == KeywordsIn(title)
     IN  /\ nco_code = "" =>
              /\ (match_result.raised # "") <=> (found = {})
              /\ found = {} => match_result = Raised("IndexError")
              /\ found # {} =>
                   /\ match_result.value[3] = 95
                   /\ \E k \in found :
                        <<match_result.value[1], match_result.value[2]>> =
                           DictGet(SEMANTIC_KEYWORDS, k)
                   /\ match_result = find_semantic_match(title, "1111.0001")
         /\ Len(nco_code) >= 1 =>
              /\ match_result.raised = ""
              /\ Len(match_result.value) = 3

\* The empty code with a title without keyword: the call ended in the
\* IndexError of nco_code[0].
C23_Witness ==
  /\ Called
  /\ nco_code = ""
  /\ title = "Unrecognized Title"
  /\ KeywordsIn(title) = {}
  /\ match_result = Raised("IndexError")

\* ------------------------------------------------------------------------
\* The order of the patterns of extract_nco_records (SpecExtract)
\* ------------------------------------------------------------------------

\* The line ends in a NNNN.NN pattern.
EndsInSecondary(line) ==
  Len(line) >= 7 /\ IsNco2004Code(SubSeq(line, Len(line) - 6, Len(line)))

\* The NNNN.NN pattern at the end of the line is separated by whitespace from
\* a title that follows the primary code and whitespace.
SeparatedFromTitle(line) ==
  /\ Len(line) >= 9 + 1 + 1 + 1 + 7
  /\ IsSpace(SubSeq(line, 10, 10))
  /\ IsSpace(SubSeq(line, Len(line) - 7, Len(line) - 7))
  /\ ~AllSpace(Middle(line, 7))

\* The record of a line that ends in a NNNN.NN pattern has that pattern as
\* its secondary code: no record with an absent secondary code comes from
\* such a line.
C24_TwoCodePatternFirst ==
  Extracted =>
    LET line == strip(TheLine)
    IN  (EndsInSecondary(line) /\ nco_records # <<>>) =>
           /\ Len(nco_records) = 1
           /\ nco_records[1].nco2004 = SubSeq(line, Len(line) - 6, Len(line))

\* C24: the two-code pattern is tried first and the primary-code-plus-title
\* pattern only when it fails and the line does not end in a NNNN.NN
\* pattern: no record with an absent secondary code comes from a line that
\* ends in a NNNN.NN pattern, and a line that starts with a primary code and
\* ends in a NNNN.NN pattern that is not separated from a title by
\* whitespace, as "1111.0001 1111.01", yields no record.
C24_AsClaimed ==
  /\ C24_TwoCodePatternFirst
  /\ Extracted =>
       LET line == strip(TheLine)
       IN  ( /\ Len(line) >= 9
             /\ IsNco2015Code(SubSeq(line, 1, 9))
             /\ EndsInSecondary(line)
             /\ ~SeparatedFromTitle(line) ) => nco_records = <<>>

\* ------------------------------------------------------------------------
\* Properties of extract_onet_records on one line (SpecExtractOnet)
\* ------------------------------------------------------------------------

\* extract_onet_records has returned.
ExtractedOnet == pc = "match"

\* The line of the one-line target document.
TheOnetLine == strip(onet_pdf[1])

\* What the first of the three patterns that matches the line captures.
FirstOnetMatch(line) ==
  LET match  == onet_pattern(line, <<"Not available", "digit", "">>, 0)
      match2 == onet_pattern(line, <<"digit">>, 1)
      match3 == onet_pattern(line, <<"Not available">>, 1)
  IN  IF match # <<>> THEN match ELSE IF match2 # <<>> THEN match2 ELSE match3

\* A line gives at most one record; the record is what the first of the
\* three patterns that matches captures, and its code has the form
\* NN-NNNN.NN.
C25_FirstMatchWins ==
  ExtractedOnet =>
    /\ Len(onet_records) <= 1
    /\ onet_records # <<>> =>
         /\ FirstOnetMatch(TheOnetLine) # <<>>
         /\ onet_records[1].onet_code = FirstOnetMatch(TheOnetLine)[1]
         /\ onet_records[1].title = strip(FirstOnetMatch(TheOnetLine)[2])
         /\ IsOnetCode(onet_records[1].onet_code)
         /\ Contains(onet_records[1].onet_code, TheOnetLine)

\* C25: a line yields at most one target record, that of the first of the
\* three patterns that matches; the emitted code has the form NN-NNNN.NN;
\* and no emitted title ends with or equals the annotation 'Bright Outlook'.
C25_AsClaimed ==
  /\ C25_FirstMatchWins
  /\ ExtractedOnet =>
       \A i \in 1..Len(onet_records) :
          ~EndsWith(onet_records[i].title, "Bright Outlook")

\* ------------------------------------------------------------------------
\* Properties of extract_nco_records on several pages (SpecExtractPages)
\* ------------------------------------------------------------------------

RECURSIVE Flatten(_)
\* The sequences of ss one after the other.
Flatten(ss) == IF ss = <<>> THEN <<>> ELSE Head(ss) \o Flatten(Tail(ss))

\* The lines of the pages that have text, page by page, in page order and
\* in line order within the page.
PageLines(pdf) ==
  Flatten([p \in 1..Len(pdf) |->
             IF pdf[p] = "" THEN <<>> ELSE split_lines(pdf[p])])

\* C26: the extracted records are the records of the record-bearing lines,
\* in page order and then line order, one for each such line, equal lines
\* giving equal records again; a page without text adds nothing; and the
\* records of the document are the records of its pages, each extracted
\* alone, one after the other.
C26_DocumentOrderKept ==
  Extracted =>
    LET all  == PageLines(nco_pdf)
        kept == {i \in 1..Len(all) : nco_line_records(all[i]) # <<>>}
        from == Subsequence(all, kept)
    IN  /\ \A i \in 1..Len(all) : Len(nco_line_records(all[i])) <= 1
        /\ Len(nco_records) = Cardinality(kept)
        /\ \A k \in 1..Len(nco_records) :
             nco_records[k] = nco_line_records(from[k])[1]
        /\ \A p \in 1..Len(nco_pdf) :
             nco_pdf[p] = "" => extract_nco_records(<<nco_pdf[p]>>) = <<>>
        /\ nco_records =
             Flatten([p \in 1..Len(nco_pdf) |-> extract_nco_records(<<nco_pdf[p]>>)])

\* Two pages of one record line each, the higher code on the first page:
\* the records come in page order.
C26_Witness ==
  /\ Extracted
  /\ nco_pdf = <<"1111.0002 Unrecognized Title", "1111.0001 Senior Advocate 1111.01">>
  /\ nco_records =
       << [nco2015 |-> "1111.0002", title |-> "Unrecognized Title", nco2004 |-> ""],
          [nco2015 |-> "1111.0001", title |-> "Senior Advocate", nco2004 |-> "1111.01"] >>

\* ------------------------------------------------------------------------
\* The order of the steps of a run (SpecFair)
\* ------------------------------------------------------------------------

\* What extract_nco_records gives for each sample line alone.
SampleLineRecords == [l \in NcoSampleLines |-> nco_line_records(l)]

\* What extract_onet_records gives for each O*NET document of a run.
OnetExtracted == [pdf \in OnetDocs |-> extract_onet_records(pdf)]

\* The records of the lines of the document, line by line.
RecordsByLine(pdf) ==
  LET all == PageLines(pdf)
  IN  Flatten([i \in 1..Len(all) |->
                 IF all[i] \in NcoSampleLines
                 THEN SampleLineRecords[all[i]]
                 ELSE nco_line_records(all[i])])

\* A step that appends to the mapping: both extractions are complete and
\* unchanged by it, nothing is written yet, and the one entry added, after
\* the entries there were, is that of the next record in input order.
MatchStepInOrder ==
  mapping' # mapping =>
     /\ nco_records = RecordsByLine(nco_pdf)
     /\ onet_records = OnetExtracted[onet_pdf]
     /\ UNCHANGED <<nco_records, onet_records, output_file, stats>>
     /\ output_file = <<>>
     /\ stats = Pending
     /\ Len(mapping') = Len(mapping) + 1
     /\ SubSeq(mapping', 1, Len(mapping)) = mapping
     /\ Len(mapping') <= Len(nco_records)
     /\ mapping'[Len(mapping')].NCO_2015_Code = nco_records[Len(mapping')].nco2015
     /\ mapping'[Len(mapping')].NCO_Job_Title = nco_records[Len(mapping')].title

\* A step that changes the output file: it is the first, it comes when
\* every record has its entry, and it writes the header and the entries.
WriteStepOnce ==
  output_file' # output_file =>
     /\ output_file = <<>>
     /\ Len(mapping) = Len(nco_records)
     /\ output_file' = csv_file(mapping)
     /\ stats = Pending
     /\ UNCHANGED <<mapping, stats>>

\* A step that changes the statistics: the file is written, and stays.
StatsStepAfterWrite ==
  stats' # stats =>
     /\ output_file # <<>>
     /\ UNCHANGED <<mapping, output_file>>

\* C27: in every run both extractions are complete before the first record
\* is matched; the records are matched one at a time in input order and an
\* entry, once appended, stays as it is; the output is written once, after
\* the last record was matched, and in every run it is written; the
\* statistics are computed only after the write.
C27_PipelineOrdering ==
  /\ [][MatchStepInOrder /\ WriteStepOnce /\ StatsStepAfterWrite]_vars
  /\ <>(output_file # <<>> /\ stats # Pending)

\* Two records matched, the file written with the header and two rows, the
\* statistics returned.
C27_Witness ==
  /\ pc = "report"
  /\ Len(nco_records) = 2
  /\ Len(mapping) = 2
  /\ onet_records = OnetExtracted[onet_pdf]
  /\ Len(output_file) = 3
  /\ stats # Pending

\* ------------------------------------------------------------------------
\* Keywords of equal length (SpecMatch)
\* ------------------------------------------------------------------------

\* C28: when keywords occur in the lower-cased title, the rule returned is
\* that of the keyword that comes first in the insertion order of
\* SEMANTIC_KEYWORDS among the longest keywords that occur; a title with
\* both 'lawyer' and 'doctor' and no longer keyword gets the rule of
\* 'lawyer'.
C28_TieBreakByInsertionOrder ==
  Called =>
    LET found   == {i \in 1..Len(SEMANTIC_KEYWORDS) :
                      SEMANTIC_KEYWORDS[i][1] \in KeywordsIn(title)}
        longest == {i \in found :
                      \A j \in found :
                         Len(SEMANTIC_KEYWORDS[j][1]) <= Len(SEMANTIC_KEYWORDS[i][1])}
    IN  found # {} =>
          LET first == CHOOSE i \in longest : \A j \in longest : i <= j
          IN  /\ match_result =
                   Returned(<<SEMANTIC_KEYWORDS[first][2][1],
                              SEMANTIC_KEYWORDS[first][2][2], 95>>)
              /\ ( /\ {"lawyer", "doctor"} \subseteq KeywordsIn(title)
                    /\ \A i \in found : Len(SEMANTIC_KEYWORDS[i][1]) <= 6 ) =>
                   match_result = Returned(<<"23-1011.00", "Lawyers", 95>>)

\* 'doctor' comes before 'lawyer' in the title and after it in the table;
\* no longer keyword occurs; the rule of 'lawyer' is returned.
C28_Witness ==
  /\ Called
  /\ title = "Doctor and Lawyer"
  /\ \A k \in KeywordsIn(title) : Len(k) <= 6
  /\ {"lawyer", "doctor"} \subseteq KeywordsIn(title)
  /\ DictGet(SEMANTIC_KEYWORDS, "doctor") # DictGet(SEMANTIC_KEYWORDS, "lawyer")
  /\ match_result = Returned(<<"23-1011.00", "Lawyers", 95>>)

\* ------------------------------------------------------------------------
\* The crosswalk and the target document (SpecTargets)
\* ------------------------------------------------------------------------

\* The (code, title) pairs of the three rule tables.
RuleTargets ==
  {SEMANTIC_KEYWORDS[i][2] : i \in 1..Len(SEMANTIC_KEYWORDS)}
    \cup {NCO_PREFIX_DEFAULTS[i][2] : i \in 1..Len(NCO_PREFIX_DEFAULTS)}
    \cup {DIVISION_DEFAULTS[i][2] : i \in 1..Len(DIVISION_DEFAULTS)}

\* The entries that depend on the source records alone: for each record,
\* its fields with what the matcher returns for its title and primary code.
EntriesOfSource(records) ==
  [i \in 1..Len(records) |->
     mapping_entry(records[i], Matched(records[i]).value)]

\* C29: in the runs of every source document with every target document
\* (one of them without records), the entries and the statistics are those
\* that the source records alone determine, so that two runs with the same
\* source records and different target records have the same entries and
\* the same statistics; the target code and title of a matched entry are a
\* pair of the rule tables, also when a target record gives the code
\* another title.
C29_IndependentOfTargetDocument ==
  LET entries == EntriesOfSource(nco_records)
  IN  /\ Len(mapping) <= Len(nco_records)
      /\ \A i \in 1..Len(mapping) :
           /\ mapping[i] = entries[i]
           /\ mapping[i].Match_Score > 0 =>
                <<mapping[i].ONET_Code, mapping[i].ONET_Job_Title>> \in RuleTargets
      /\ stats # Pending =>
           /\ mapping = entries
           /\ stats = Returned(crosswalk_stats(entries))
           /\ output_file = csv_file(entries)

\* The statistics of a run whose target document gives 23-1011.00 the
\* title "Attorneys": the entry of the advocate has the title of the rule.
C29_Witness ==
  /\ stats # Pending
  /\ \E j \in 1..Len(onet_records) :
       /\ onet_records[j].onet_code = "23-1011.00"
       /\ onet_records[j].title = "Attorneys"
  /\ Len(mapping) = 2
  /\ mapping[1].ONET_Code = "23-1011.00"
  /\ mapping[1].ONET_Job_Title = "Lawyers"
  /\ stats.value.total_records = 2

\* A run with the same source records and no target record at all.
C29_WitnessNoTargets ==
  /\ stats # Pending
  /\ onet_pdf = <<>>
  /\ onet_records = <<>>
  /\ Len(mapping) = 2
  /\ mapping[1].ONET_Job_Title = "Lawyers"

\* ------------------------------------------------------------------------
\* The report after create_crosswalk (Spec)
\* ------------------------------------------------------------------------

\* C30 as claimed: once create_crosswalk has returned its statistics, main
\* ends without an exception, whatever the statistics, total_records = 0
\* among them.  (print_validation_report divides by total_records; on a
\* source document without records the run ends in ZeroDivisionError.)
C30_AsClaimed ==
  stats # Pending => pc # "crashed" /\ exception = ""

====
